---- MODULE Spec2Model ----
(***************************************************************************)
(* Sideline Stats ingestion pipeline: the batch scripts that scan the      *)
(* upstream scoreboards, fetch and parse box scores, merge them into team  *)
(* and player season totals, derive the ratings and persist everything to  *)
(* JSON files and (when POSTGRES_URL is set) to the database.              *)
(*                                                                         *)
(* Scripts modelled (variable script):                                     *)
(*   build_ratings            scripts/build_ratings.mjs         incremental*)
(*   build_mens_d2_ratings    scripts/build_mens_d2_ratings.mjs incremental*)
(*   build_womens_d1_ratings  unnamed/part_007 (daily update)   incremental*)
(*   build_complete_stats     scripts/build_complete_stats.mjs  rebuild    *)
(*   build_mens_d2_complete   scripts/build_mens_d2_complete.mjs rebuild   *)
(*   initialize_games_cache   unnamed/part_006 (second script)             *)
(*                                                                         *)
(* Numbers with fractions (possessions, ratings) are kept as integers in   *)
(* thousandths.  A file that does not exist and a file holding an empty    *)
(* collection are the same state: every loader reads both as empty.        *)
(***************************************************************************)
EXTENDS Integers, Sequences, FiniteSets, TLC

(* ---------------------------------------------------------------- bounds *)
MaxGames == 2
MaxTeams == 3
MaxDay == 2
MaxToday == 3
MaxRuns == 2

Games == 1..MaxGames
Teams == 1..MaxTeams
Days == 1..MaxDay

(* ------------------------------------------------- program constants      *)
\* the Guard's floor, scaled from 300 / 200 / 300 teams to the model's league
MIN_TEAMS_REQUIRED == 2
MIN_TEAMS_REQUIRED_D2 == 2
MIN_TEAMS == 2
\* the incremental scripts look back two days (datesToCheck)
LOOKBACK_DAYS == 2

NULL == "null"

D1_CONFERENCES == {"acc", "sec"}
WOMENS_D1_CONFERENCES == {"acc", "sec"}
MENS_D2_CONFERENCES == {"gliac", "ciaa"}

IncrementalScripts == {"build_ratings", "build_mens_d2_ratings", "build_womens_d1_ratings"}
RebuildScripts == {"build_complete_stats", "build_mens_d2_complete"}

\* the scripts that share one set of files (and one database division)
ScriptsOf(fam) ==
  CASE fam = "w"   -> {"build_complete_stats", "build_ratings"}
    [] fam = "d2"  -> {"build_mens_d2_complete", "build_mens_d2_ratings"}
    [] fam = "wd1" -> {"build_womens_d1_ratings"}

StatFields ==
  {"points", "fgm", "fga", "tpm", "tpa", "ftm", "fta", "orb", "drb", "trb",
   "ast", "stl", "blk", "tov", "pf"}

Max(a, b) == IF a >= b THEN a ELSE b
SeqToSet(s) == {s[i] : i \in 1..Len(s)}

(* ------------------------------------------------------------ variables  *)
VARIABLES
  family,      \* which set of files this installation holds: "w", "d2", "wd1"
  dbEnabled,   \* !!process.env.POSTGRES_URL
  upstream,    \* what the upstream API answers, per path
  today,       \* the current day (days are numbered from SEASON_START)
  fRatings,    \* *ratings.json: rows
  fTeams,      \* *team_stats.json: teams
  fPlayers,    \* *player_stats.json: players
  fCache,      \* *games_cache.json: game_ids
  fGames,      \* *games.json: games (written by the rebuilds only)
  dbTeams,     \* table teams of the division
  dbPlayers,   \* table players of the division
  dbGames,     \* table games of the division
  dbPlayerGames, \* table player_games of the division
  script,      \* the script of the running process, NULL when none runs
  pc,          \* position of the running process in main
  mem,         \* the local variables of main
  exitCode,    \* the exit code of the process that just ended: NULL, "0", "1"
  runs,        \* number of processes started so far
  net,         \* one fetchJson call, or one mapLimit pool, looked at step by step
  hist         \* history: what the properties below refer to in past runs

vars == <<family, dbEnabled, upstream, today, fRatings, fTeams, fPlayers, fCache,
          fGames, dbTeams, dbPlayers, dbGames, dbPlayerGames, script, pc, mem,
          exitCode, runs, net, hist>>

files == <<fRatings, fTeams, fPlayers, fCache, fGames>>
database == <<dbTeams, dbPlayers, dbGames, dbPlayerGames>>
persisted == <<fRatings, fTeams, fPlayers, fCache, fGames,
               dbTeams, dbPlayers, dbGames, dbPlayerGames>>
\* what no statement of a main changes
environment == <<family, dbEnabled, upstream, net>>

(* ------------------------------------------------------------- upstream  *)
\* The schedule: game g is played on GameDay(g) by HomeOf(g) and AwayOf(g).
HomeOf(g) == ((g - 1) % MaxTeams) + 1
AwayOf(g) == (g % MaxTeams) + 1
GameDay(g) == ((g - 1) % MaxDay) + 1

\* A conference code of the family's division, and one of another division.
InConf(fam) == IF fam = "d2" THEN "gliac" ELSE "acc"
OutConf(fam) == IF fam = "d2" THEN "acc" ELSE "gliac"
\* Team 1 (and every third team after it) belongs to another division.
TeamConf(fam, t) == IF t % 3 = 1 THEN OutConf(fam) ELSE InConf(fam)

\* GET /game/{id}/boxscore answers: "fail" (the request fails after its
\* retries), or a payload: "ok" (stats candidates for both teams), "nohome" /
\* "noaway" (no stats candidate for that side).
BoxAnswers == {"fail", "nohome", "noaway", "ok"}

Upstreams ==
  {u \in [box : [Games -> BoxAnswers],
          conf : [Games -> BOOLEAN],      \* scoreboard carries conference info
          sbFail : SUBSET Days] :         \* days whose scoreboard request fails
     \A g \in Games : u.box[g] # "ok" => u.conf[g]}

\* the team totals line of one side in the box score of game g
BoxLine(g, side) ==
  [f \in StatFields |->
     CASE f = "points" -> IF (g % 2 = 1) = (side = "home") THEN 2 ELSE 1
       [] f = "trb" -> 3
       [] f = "orb" -> 1
       [] f = "drb" -> IF side = "home" THEN 2 ELSE 0
       [] OTHER -> 1]

\* the one player line of a side: the away player of an even game is listed
\* as a starter and sat out
PlayerLine(g, side) ==
  [starter |-> side = "home" \/ g % 2 = 0,
   minutes |-> IF side = "away" /\ g % 2 = 0 THEN 0 ELSE 10,
   points  |-> IF side = "away" /\ g % 2 = 0 THEN 0 ELSE 1]

(* ------------------------------------------------ scoreboards and dates  *)
\* The day's scoreboard lists the games of the day; game 1 ends after midnight
\* and is listed on the next day's scoreboard as well.
ListedOn(g, day) == day = GameDay(g) \/ (g = 1 /\ day = GameDay(g) + 1)

RECURSIVE ListingUpTo(_, _)
ListingUpTo(day, n) ==
  IF n = 0 THEN <<>>
  ELSE ListingUpTo(day, n - 1) \o (IF ListedOn(n, day) THEN <<n>> ELSE <<>>)

\* extractGameIds(scoreboard): the ids of the games the day's scoreboard
\* lists, in payload order, each once (ids is a Set)
extractGameIds(day) == ListingUpTo(day, MaxGames)

\* fetchJson(scoreboardPath) throws
ScoreboardFails(up, day) == day \in up.sbFail

\* datesToCheck: yesterday, then the day before
datesToCheck(now) == [i \in 1..LOOKBACK_DAYS |-> now - i]

\* for (dt = start; dt <= end; dt = addDays(dt, 1)): SEASON_START is day 1
seasonDays(now) == [i \in 1..now |-> i]

\* gameIds.forEach(gid => allGameIds.add(gid)): a Set keeps insertion order
RECURSIVE AddAll(_, _)
AddAll(acc, ids) ==
  IF ids = <<>> THEN acc
  ELSE AddAll(IF Head(ids) \in SeqToSet(acc) THEN acc ELSE Append(acc, Head(ids)),
              Tail(ids))

\* the scan loop of build_ratings / build_mens_d2_ratings: a failed day is
\* logged and skipped
RECURSIVE ScanDays(_, _, _)
ScanDays(up, dates, acc) ==
  IF dates = <<>> THEN acc
  ELSE ScanDays(up, Tail(dates),
                IF ScoreboardFails(up, Head(dates)) THEN acc
                ELSE AddAll(acc, extractGameIds(Head(dates))))

\* the scan loop of the daily updater: ids are filtered against the cache and
\* collected per day (dayGameIds), then pushed onto newGameIds day by day
RECURSIVE ScanDaysDaily(_, _, _, _)
ScanDaysDaily(up, dates, known, acc) ==
  IF dates = <<>> THEN acc
  ELSE ScanDaysDaily(up, Tail(dates), known,
         acc \o (IF ScoreboardFails(up, Head(dates)) THEN <<>>
                 ELSE AddAll(<<>>, SelectSeq(extractGameIds(Head(dates)),
                                             LAMBDA g : g \notin known))))

\* the scan loop of the rebuilds: seenGameIds keeps a game from being taken
\* on a second day
RECURSIVE ScanSeason_stopsAtFailure(_, _, _)
ScanSeason_stopsAtFailure(up, dates, acc) ==
  IF dates = <<>> \/ ScoreboardFails(up, Head(dates)) THEN acc
  ELSE ScanSeason_stopsAtFailure(up, Tail(dates),
         acc \o SelectSeq(extractGameIds(Head(dates)),
                          LAMBDA g : g \notin SeqToSet(acc)))

RECURSIVE ScanSeason(_, _, _)
ScanSeason(up, dates, acc) ==
  IF dates = <<>> THEN acc
  ELSE ScanSeason(up, Tail(dates),
         IF ScoreboardFails(up, Head(dates)) THEN acc
         ELSE acc \o SelectSeq(extractGameIds(Head(dates)),
                               LAMBDA g : g \notin SeqToSet(acc)))

\* extractConferenceFromGame / conferenceMap.get(gid): NULL codes when the
\* scoreboard carries no conference info for the game
confInfoOf(up, fam, g) ==
  IF up.conf[g]
  THEN [found |-> TRUE, homeConf |-> TeamConf(fam, HomeOf(g)),
        awayConf |-> TeamConf(fam, AwayOf(g))]
  ELSE [found |-> FALSE, homeConf |-> NULL, awayConf |-> NULL]

(* ------------------------------------------------------ box-score parse  *)
\* bestById.get(id)?.stats: the selected stats candidate of a side, if any
HasCandidate(answer, side) ==
  \/ answer = "ok"
  \/ answer = "nohome" /\ side = "away"
  \/ answer = "noaway" /\ side = "home"

NoGame == [parsed |-> FALSE]

\* parseBoxscore / parseCompleteGameData of a fetched payload; the conference
\* of a side is confInfo's code, or NULL
parseBoxscore_homeOnly(up, fam, g) ==
  IF ~HasCandidate(up.box[g], "home")
  THEN NoGame
  ELSE [parsed |-> TRUE, gameId |-> g,
        home |-> [teamId |-> HomeOf(g), stats |-> BoxLine(g, "home"),
                  conference |-> confInfoOf(up, fam, g).homeConf,
                  player |-> PlayerLine(g, "home")],
        away |-> [teamId |-> AwayOf(g), stats |-> BoxLine(g, "away"),
                  conference |-> confInfoOf(up, fam, g).awayConf,
                  player |-> PlayerLine(g, "away")]]
parseBoxscore(up, fam, g) ==
  IF ~(HasCandidate(up.box[g], "home") /\ HasCandidate(up.box[g], "away"))
  THEN NoGame
  ELSE [parsed |-> TRUE, gameId |-> g,
        home |-> [teamId |-> HomeOf(g), stats |-> BoxLine(g, "home"),
                  conference |-> confInfoOf(up, fam, g).homeConf,
                  player |-> PlayerLine(g, "home")],
        away |-> [teamId |-> AwayOf(g), stats |-> BoxLine(g, "away"),
                  conference |-> confInfoOf(up, fam, g).awayConf,
                  player |-> PlayerLine(g, "away")]]

(* ------------------------------------------------------- keyed tables    *)
\* a JS Map keyed by teamId / playerId, in insertion order
KeysOf(m) == {m[i].id : i \in 1..Len(m)}
Has(m, k) == k \in KeysOf(m)
Get(m, k) == m[CHOOSE i \in 1..Len(m) : m[i].id = k]
Set(m, k, row) ==
  IF Has(m, k) THEN [i \in 1..Len(m) |-> IF m[i].id = k THEN row ELSE m[i]]
  ELSE Append(m, row)

isD1Conference(conf) == conf # NULL /\ conf \in D1_CONFERENCES
isWD1Conference(conf) == conf # NULL /\ conf \in WOMENS_D1_CONFERENCES
isD2Conference(conf) == conf # NULL /\ conf \in MENS_D2_CONFERENCES

(* ------------------------------------------------------ season aggregator *)
ZeroStats == [f \in StatFields |-> 0]

NewTeamRow(team) ==
  [id |-> team.teamId, conference |-> team.conference,
   games |-> 0, wins |-> 0, losses |-> 0, own |-> ZeroStats, opp |-> ZeroStats]

\* what one box-score line adds to a totals field: build_ratings adds the
\* line's own drb, every other script adds max(0, trb - orb)
DrbIsDerived_everywhere(sc) == TRUE
DrbIsDerived(sc) == sc # "build_ratings"

LineDelta(sc, stats) ==
  [f \in StatFields |->
     IF f = "drb" /\ DrbIsDerived(sc) THEN Max(0, stats["trb"] - stats["orb"])
     ELSE stats[f]]

AddGame(sc, row, side, opp) ==
  [row EXCEPT
     !.games = @ + 1,
     !.wins = @ + (IF side.stats["points"] > opp.stats["points"] THEN 1 ELSE 0),
     !.losses = @ + (IF side.stats["points"] > opp.stats["points"] THEN 0 ELSE 1),
     \* if (!existing.conference && side.conference) (mens-d2 incremental only)
     !.conference = IF sc = "build_mens_d2_ratings" /\ @ = NULL
                    THEN side.conference ELSE @,
     !.own = [f \in StatFields |-> @[f] + LineDelta(sc, side.stats)[f]],
     !.opp = [f \in StatFields |-> @[f] + LineDelta(sc, opp.stats)[f]]]

\* whether the script keeps a season row for this side at all
TracksTeam(sc, side) ==
  CASE sc = "build_womens_d1_ratings" -> isWD1Conference(side.conference)
    [] sc = "build_mens_d2_complete" -> isD2Conference(side.conference)
    [] OTHER -> TRUE

\* one pass of "for (const side of [home, away])"
MergeSide_ownAsOpponent(sc, teamStats, side, opp) ==
  Set(teamStats, side.teamId, AddGame(sc, NewTeamRow(side), side, side))
MergeSide(sc, teamStats, side, opp) ==
  IF ~TracksTeam(sc, side) THEN teamStats
  ELSE Set(teamStats, side.teamId,
           AddGame(sc, IF Has(teamStats, side.teamId)
                       THEN Get(teamStats, side.teamId) ELSE NewTeamRow(side),
                   side, opp))

MergeTeams(sc, teamStats, game) ==
  MergeSide(sc, MergeSide(sc, teamStats, game.home, game.away), game.away, game.home)

\* ---- players
\* one player per team in the feed: the playerId is determined by the teamId
buildPlayerId(teamId) == teamId

\* mins > 0 || parseInt(p.points || 0) > 0
Played_always(line) == TRUE

Played(line) == line.minutes > 0 \/ line.points > 0

NewPlayerRow(teamId) ==
  [id |-> buildPlayerId(teamId), teamId |-> teamId,
   games |-> 0, starts |-> 0, minutes |-> 0, points |-> 0]

AddLine(row, line) ==
  [row EXCEPT !.games = @ + 1,
              !.starts = @ + (IF line.starter THEN 1 ELSE 0),
              !.minutes = @ + line.minutes,
              !.points = @ + line.points]

\* whether the script aggregates the player lines of this side
TracksPlayers(sc, teamStats, side) ==
  CASE sc = "build_womens_d1_ratings" -> isWD1Conference(side.conference)
    [] sc = "build_mens_d2_complete" -> isD2Conference(side.conference)
    [] sc = "build_mens_d2_ratings" -> Has(teamStats, side.teamId)
    [] OTHER -> TRUE

\* the incremental scripts of scripts/ skip a line that did not play before
\* they touch the table; the others create the (games = 0) row first
CreatesIdleRows(sc) == sc \notin {"build_ratings", "build_mens_d2_ratings"}

MergePlayerSide(sc, teamStats, playerStats, side) ==
  LET pid == buildPlayerId(side.teamId)
      row == IF Has(playerStats, pid) THEN Get(playerStats, pid)
             ELSE NewPlayerRow(side.teamId)
  IN  IF ~TracksPlayers(sc, teamStats, side) THEN playerStats
      ELSE IF Played(side.player) THEN Set(playerStats, pid, AddLine(row, side.player))
      ELSE IF CreatesIdleRows(sc) THEN Set(playerStats, pid, row)
      ELSE playerStats

MergePlayers(sc, teamStats, playerStats, game) ==
  MergePlayerSide(sc, teamStats,
                  MergePlayerSide(sc, teamStats, playerStats, game.home), game.away)

\* newPlayerGameRows.push(...) of the incremental scripts of scripts/
PlayerGameRowsOf(sc, teamStats, game) ==
  (IF TracksPlayers(sc, teamStats, game.home) /\ Played(game.home.player)
   THEN <<[gameId |-> game.gameId, playerId |-> buildPlayerId(game.home.teamId)]>>
   ELSE <<>>)
  \o
  (IF TracksPlayers(sc, teamStats, game.away) /\ Played(game.away.player)
   THEN <<[gameId |-> game.gameId, playerId |-> buildPlayerId(game.away.teamId)]>>
   ELSE <<>>)

(* ------------------------------------------------------ rating calculator *)
\* Math.max(1, fga - orb + tov + 0.475 * fta), in thousandths
poss_withoutRebounds(fga, orb, tov, fta) == Max(1000, 1000 * (fga + tov) + 475 * fta)
poss_floorOfTwo(fga, orb, tov, fta) == Max(2000, 1000 * (fga - orb + tov) + 475 * fta)
poss(fga, orb, tov, fta) == Max(1000, 1000 * (fga - orb + tov) + 475 * fta)

\* one ratingsRows.push(...): adjO, adjD, adjEM and adjT in thousandths
\* (points / poss) * 100 is points * 100000000 \div poss in these units; the
\* quotient is taken in two steps to stay within 32-bit integers
RatingOf(row) ==
  LET offPoss == poss(row.own["fga"], row.own["orb"], row.own["tov"], row.own["fta"])
      defPoss == poss(row.opp["fga"], row.opp["orb"], row.opp["tov"], row.opp["fta"])
      per100(points, p) == ((points * 100000) \div p) * 1000
                           + (((points * 100000) % p) * 1000) \div p
      adjO == per100(row.own["points"], offPoss)
      adjD == per100(row.opp["points"], defPoss)
  IN  [id |-> row.id, conference |-> row.conference, games |-> row.games,
       adjO |-> adjO, adjD |-> adjD, adjEM |-> adjO - adjD,
       adjT |-> offPoss \div Max(1, row.games)]

\* ratingsRows.sort((a, b) => b.adjEM - a.adjEM): stable, descending
InsertRow(sorted, r) ==
  LET k == Cardinality({i \in 1..Len(sorted) : sorted[i].adjEM >= r.adjEM})
  IN  SubSeq(sorted, 1, k) \o <<r>> \o SubSeq(sorted, k + 1, Len(sorted))

RECURSIVE SortByAdjEM(_)
SortByAdjEM(rows) ==
  IF rows = <<>> THEN <<>>
  ELSE InsertRow(SortByAdjEM(SubSeq(rows, 1, Len(rows) - 1)), rows[Len(rows)])

ratingsRowsOf(teamStats) ==
  SortByAdjEM([i \in 1..Len(teamStats) |-> RatingOf(teamStats[i])])

(* ------------------------------------------------------------ the stores *)
\* a table of the database, keyed by id (db_writer.mjs: upsert by key)
Upsert(table, k, row) ==
  [x \in (DOMAIN table) \cup {k} |-> IF x = k THEN row ELSE table[x]]

RECURSIVE UpsertAll(_, _)
UpsertAll(table, rows) ==
  IF rows = <<>> THEN table
  ELSE UpsertAll(Upsert(table, Head(rows).id, Head(rows)), Tail(rows))

EmptyTable == [x \in {} |-> 0]

\* what upsertTeam stores for a season row: the totals and the ratings
DbTeamRow(row) == [id |-> row.id, totals |-> row, rating |-> RatingOf(row)]

\* loadKnownGameIds: the ids of the cache file, as a Set
loadKnownGameIds_empty(cacheFile) == {}
loadKnownGameIds(cacheFile) == SeqToSet(cacheFile)

\* saveKnownGameIds(newlyParsedIds): [...new Set([...existingIds, ...new])]
saveKnownGameIds(cacheFile, newlyParsedIds) == AddAll(AddAll(<<>>, cacheFile), newlyParsedIds)

\* the daily updater: [...knownGameIds, ...successfulGameIds]
appendGameIds(cacheFile, successfulGameIds) == AddAll(<<>>, cacheFile) \o successfulGameIds

(* ------------------------------------------------------- the run's locals *)
EmptyMem ==
  [teamSeasonStats |-> <<>>, playerSeasonStats |-> <<>>, knownGameIds |-> {},
   newGameIds |-> <<>>, boxscoreFetches |-> <<>>, idx |-> 0,
   processedGameIds |-> <<>>, newGamesForDb |-> <<>>, newPlayerGameRows |-> <<>>,
   ratingsRows |-> <<>>, keptRows |-> <<>>,
   requested |-> {},      \* the ids whose /game/{id}/boxscore was requested
   totalGamesFound |-> 0, totalBoxesParsed |-> 0, totalBoxesFailed |-> 0,
   failure |-> NULL,      \* why main rejected: "guard" or "io"
   swallowed |-> FALSE]   \* a database error was caught and ignored

\* main's statements in order, per script; after the last one main returns
Program(sc) ==
  CASE sc = "build_ratings" ->
         <<"fetch", "merge", "db", "rate", "dbteams", "ratings", "teams", "players", "cache">>
    [] sc = "build_mens_d2_ratings" ->
         <<"fetch", "merge", "db", "rate", "ratings", "teams", "players", "cache">>
    [] sc = "build_womens_d1_ratings" ->
         <<"fetch", "merge", "rate", "ratings", "teams", "players", "cache", "db">>
    [] sc = "build_complete_stats" ->
         <<"fetch", "merge", "rate", "ratings", "teams", "games", "players", "cache", "db">>
    [] sc = "build_mens_d2_complete" ->
         <<"fetch", "merge", "rate", "ratings", "teams", "games", "cache", "players", "db">>

IsLast(sc, p) == Program(sc)[Len(Program(sc))] = p

NextPc(sc, p) ==
  LET prog == Program(sc)
      i == CHOOSE j \in 1..Len(prog) : prog[j] = p
  IN  prog[i + 1]

Running == pc \notin {"idle", "exited"}

\* the pipeline actions take fetchJson and mapLimit in one step each
NoNet == [kind |-> "none"]

(* ------------------------------------------------------------------ Init *)
Init ==
  /\ family \in {"w", "d2", "wd1"}
  /\ dbEnabled \in BOOLEAN
  /\ upstream \in Upstreams
  /\ today = 1
  /\ fRatings = <<>> /\ fTeams = <<>> /\ fPlayers = <<>> /\ fCache = <<>> /\ fGames = <<>>
  /\ dbTeams = EmptyTable /\ dbPlayers = EmptyTable
  /\ dbGames = {} /\ dbPlayerGames = {}
  /\ script = NULL /\ pc = "idle" /\ mem = EmptyMem
  /\ exitCode = NULL /\ runs = 0
  /\ net = NoNet
  /\ hist = [pre |-> <<>>,        \* the stores when the running process started
             repeat |-> FALSE,    \* the process repeats the run before it
             settled |-> NULL,    \* the incremental script that just ran
             merged |-> {},       \* the gameIds some run parsed and merged
             trouble |-> {}]      \* what went wrong so far: "fault", "kill"
                                  \* (an incremental run killed), "killRebuild",
                                  \* "fail" (an exit 1), "seed" (cache initialised)

(* --------------------------------------------------------------- actions *)
\* the statement is done: go to the next one, or return from main (exit 0)
GoOn(m) ==
  /\ mem' = m
  /\ IF IsLast(script, pc)
     THEN pc' = "exited" /\ exitCode' = "0"
     ELSE pc' = NextPc(script, pc) /\ exitCode' = exitCode

\* main rejects: main().catch logs FATAL and calls process.exit(1)
Fail(m, why) ==
  /\ mem' = [m EXCEPT !.failure = why]
  /\ pc' = "exited" /\ exitCode' = "1"

\* The start of an incremental main: load the three files, scan the two
\* scoreboards, keep the ids that are not in the cache; exit 0 when none is new.
StartIncremental(sc) ==
  /\ pc = "idle" /\ runs < MaxRuns
  /\ sc \in ScriptsOf(family) \cap IncrementalScripts
  /\ script' = sc /\ runs' = runs + 1
  /\ LET known == loadKnownGameIds(fCache)
         new == IF sc = "build_womens_d1_ratings"
                THEN ScanDaysDaily(upstream, datesToCheck(today), known, <<>>)
                ELSE SelectSeq(ScanDays(upstream, datesToCheck(today), <<>>),
                               LAMBDA g : g \notin known)
     IN  /\ mem' = [EmptyMem EXCEPT !.teamSeasonStats = fTeams,
                                    !.playerSeasonStats = fPlayers,
                                    !.knownGameIds = known,
                                    !.newGameIds = new]
         /\ IF new = <<>>
            THEN pc' = "exited" /\ exitCode' = "0"
            ELSE pc' = "fetch" /\ exitCode' = NULL
  /\ hist' = [hist EXCEPT !.pre = persisted, !.repeat = (hist.settled = sc),
                          !.settled = NULL]
  /\ UNCHANGED <<environment, today, persisted>>

\* The start of a rebuild main: an empty season state and every day from
\* SEASON_START to today.
StartRebuild(sc) ==
  /\ pc = "idle" /\ runs < MaxRuns
  /\ sc \in ScriptsOf(family) \cap RebuildScripts
  /\ script' = sc /\ runs' = runs + 1
  /\ LET gameIds == ScanSeason(upstream, seasonDays(today), <<>>)
     IN  mem' = [EmptyMem EXCEPT !.newGameIds = gameIds,
                                 !.totalGamesFound = Len(gameIds)]
  /\ pc' = "fetch" /\ exitCode' = NULL
  /\ hist' = [hist EXCEPT !.pre = persisted, !.repeat = FALSE, !.settled = NULL]
  /\ UNCHANGED <<environment, today, persisted>>

\* mapLimit(newGameIds, BOX_CONCURRENCY, ...): one /game/{id}/boxscore request
\* per id; a failed request yields box: null
FetchBoxscores ==
  /\ pc = "fetch"
  /\ GoOn([mem EXCEPT
       !.boxscoreFetches = [i \in 1..Len(mem.newGameIds) |->
                              [gid |-> mem.newGameIds[i],
                               box |-> upstream.box[mem.newGameIds[i]] # "fail"]],
       !.requested = SeqToSet(mem.newGameIds),
       !.idx = 1])
  /\ UNCHANGED <<environment, today, persisted, script, runs, hist>>

\* d2 rebuild: "Only keep games where at least one team is a known D2 conference"
KeepsGame(sc, game) ==
  sc = "build_mens_d2_complete" =>
    (isD2Conference(game.home.conference) \/ isD2Conference(game.away.conference))

\* One turn of the loop over boxscoreFetches: skip a null box, parse, skip an
\* unparseable game, else merge the game into the team and player totals.
\* The rebuilds count what the loop does with a game (the incremental scripts
\* keep no such counters): totalBoxesFailed++ for a null box and for an
\* unparseable game, totalBoxesParsed++ for a game pushed to allGames.
MergeGame ==
  /\ pc = "merge" /\ mem.idx <= Len(mem.boxscoreFetches)
  /\ LET item == mem.boxscoreFetches[mem.idx]
         game == parseBoxscore(upstream, family, item.gid)
         teams == MergeTeams(script, mem.teamSeasonStats, game)
     IN  IF ~item.box \/ ~game.parsed \/ ~KeepsGame(script, game)
         THEN /\ mem' = [mem EXCEPT
                   !.idx = @ + 1,
                   !.totalBoxesFailed =
                       IF script \in RebuildScripts /\ (~item.box \/ ~game.parsed)
                       THEN @ + 1 ELSE @]
              /\ hist' = hist
         ELSE /\ mem' = [mem EXCEPT
                   !.idx = @ + 1,
                   !.teamSeasonStats = teams,
                   !.playerSeasonStats = MergePlayers(script, teams, @, game),
                   !.newGamesForDb = Append(@, game),
                   !.newPlayerGameRows =
                       IF script \in {"build_ratings", "build_mens_d2_ratings"}
                       THEN @ \o PlayerGameRowsOf(script, teams, game) ELSE @,
                   !.processedGameIds = Append(@, item.gid),
                   !.totalBoxesParsed = IF script \in RebuildScripts THEN @ + 1 ELSE @]
              /\ hist' = [hist EXCEPT !.merged = @ \cup {item.gid}]
  /\ UNCHANGED <<environment, today, persisted, script, pc, exitCode, runs>>

\* The loop is over.  The daily updater returns when no game was parsed.
AfterMerge ==
  /\ pc = "merge" /\ mem.idx > Len(mem.boxscoreFetches)
  /\ IF script = "build_womens_d1_ratings" /\ mem.processedGameIds = <<>>
     THEN pc' = "exited" /\ exitCode' = "0" /\ mem' = mem
     ELSE GoOn(mem)
  /\ UNCHANGED <<environment, today, persisted, script, runs, hist>>

\* ---- ratings and the Guard
Floor(sc) ==
  CASE sc = "build_ratings" -> MIN_TEAMS_REQUIRED
    [] sc = "build_mens_d2_ratings" -> MIN_TEAMS_REQUIRED_D2
    [] sc = "build_womens_d1_ratings" -> MIN_TEAMS
    [] OTHER -> 0        \* the rebuilds compare the team count with nothing

\* the rows that go to the ratings file: d1Rows, or every row
KeptRows(sc, rows) ==
  IF sc \in {"build_ratings", "build_complete_stats"}
  THEN SelectSeq(rows, LAMBDA r : isD1Conference(r.conference))
  ELSE rows

GuardRejects(sc, kept) == Len(kept) < Floor(sc)

\* Recompute every ratings row from the season totals; throw BAD RUN when the
\* rows are fewer than the floor.
ComputeRatings ==
  /\ pc = "rate"
  /\ LET rows == ratingsRowsOf(mem.teamSeasonStats)
         kept == KeptRows(script, rows)
         m == [mem EXCEPT !.ratingsRows = rows, !.keptRows = kept]
     IN  IF GuardRejects(script, kept) THEN Fail(m, "guard") ELSE GoOn(m)
  /\ UNCHANGED <<environment, today, persisted, script, runs, hist>>

\* ---- the database (db_writer.mjs)
GameIdsOf(games) == {games[i].gameId : i \in 1..Len(games)}

\* the season rows of the teams that played one of this run's games
teamsToUpdate(teamStats, games) ==
  SelectSeq(teamStats, LAMBDA t :
     \E i \in 1..Len(games) : games[i].home.teamId = t.id \/ games[i].away.teamId = t.id)

\* the player rows whose playerId is in newPlayerGameRows
playersToUpdate(playerStats, rows) ==
  SelectSeq(playerStats, LAMBDA p : \E i \in 1..Len(rows) : rows[i].playerId = p.id)

UpsertTeams(table, teamStats) ==
  UpsertAll(table, [i \in 1..Len(teamStats) |-> DbTeamRow(teamStats[i])])

\* The database block of build_ratings and build_mens_d2_ratings, which runs
\* before the ratings are computed: insertGame and upsertPlayer (and, for
\* mens-d2, upsertTeam) errors are caught and ignored; an
\* insertPlayerGamesBatch error propagates.  bad is the operation the database
\* rejects during this block, if any.
WriteDatabaseEarly ==
  /\ pc = "db" /\ script \in {"build_ratings", "build_mens_d2_ratings"}
  /\ IF ~dbEnabled
     THEN GoOn(mem) /\ UNCHANGED database
     ELSE \E bad \in {NULL, "insertGame", "insertPlayerGamesBatch", "upsertPlayer", "upsertTeam"} :
       /\ bad = "upsertTeam" => script = "build_mens_d2_ratings"
       /\ bad = "insertPlayerGamesBatch" => mem.newPlayerGameRows # <<>>
       /\ dbGames' = IF bad = "insertGame" THEN dbGames
                     ELSE dbGames \cup GameIdsOf(mem.newGamesForDb)
       /\ IF bad = "insertPlayerGamesBatch"
          THEN /\ Fail(mem, "io")
               /\ UNCHANGED <<dbPlayerGames, dbPlayers, dbTeams>>
          ELSE /\ dbPlayerGames' = dbPlayerGames \cup SeqToSet(mem.newPlayerGameRows)
               /\ dbPlayers' = IF bad = "upsertPlayer" THEN dbPlayers
                               ELSE UpsertAll(dbPlayers,
                                      playersToUpdate(mem.playerSeasonStats,
                                                      mem.newPlayerGameRows))
               /\ dbTeams' = IF script = "build_mens_d2_ratings" /\ bad # "upsertTeam"
                             THEN UpsertTeams(dbTeams,
                                    teamsToUpdate(mem.teamSeasonStats, mem.newGamesForDb))
                             ELSE dbTeams
               /\ GoOn([mem EXCEPT !.swallowed = @ \/ (bad # NULL)])
  /\ UNCHANGED <<environment, today, files, script, runs, hist>>

\* "UPDATE TEAM RATINGS IN DB" of build_ratings, after the Guard
UpdateTeamRatings ==
  /\ pc = "dbteams"
  /\ IF ~dbEnabled
     THEN GoOn(mem) /\ UNCHANGED dbTeams
     ELSE \E bad \in {NULL, "upsertTeam"} :
       /\ dbTeams' = IF bad = "upsertTeam" THEN dbTeams
                     ELSE UpsertTeams(dbTeams,
                            teamsToUpdate(mem.teamSeasonStats, mem.newGamesForDb))
       /\ GoOn([mem EXCEPT !.swallowed = @ \/ (bad # NULL)])
  /\ UNCHANGED <<environment, today, files, dbPlayers, dbGames, dbPlayerGames,
                 script, runs, hist>>

\* whether the late database blocks write a player-game row for this side
WritesLine(sc, teamStats, side) ==
  CASE sc = "build_womens_d1_ratings" -> isWD1Conference(side.conference)
    [] sc = "build_mens_d2_complete" -> Has(teamStats, side.teamId)
    [] OTHER -> TRUE

RECURSIVE playerGameRows(_, _, _)
playerGameRows(sc, teamStats, games) ==
  IF games = <<>> THEN <<>>
  ELSE LET g == Head(games)
           rowOf(side) == IF WritesLine(sc, teamStats, side)
                          THEN <<[gameId |-> g.gameId,
                                  playerId |-> buildPlayerId(side.teamId)]>>
                          ELSE <<>>
       IN  rowOf(g.home) \o rowOf(g.away) \o playerGameRows(sc, teamStats, Tail(games))

\* the players that go to the player file and to the late database blocks
PlayersOut(sc, playerStats, kept) ==
  SelectSeq(playerStats, LAMBDA p :
     /\ p.games > 0
     /\ sc \in {"build_ratings", "build_complete_stats"} =>
          \E i \in 1..Len(kept) : kept[i].id = p.teamId)

\* the database operations of the late blocks, in program order
DbOps(sc) ==
  IF sc = "build_womens_d1_ratings"
  THEN <<"insertGame", "insertPlayerGamesBatch", "upsertTeam", "upsertPlayer">>
  ELSE <<"clearDivisionData", "upsertTeam", "insertGame", "upsertPlayer",
         "insertPlayerGamesBatch">>

\* the tables after the first n operations of the block
RECURSIVE DbAfter(_, _, _, _)
DbAfter(sc, m, db, n) ==
  IF n = 0 THEN db
  ELSE LET d == DbAfter(sc, m, db, n - 1)
           op == DbOps(sc)[n]
       IN  CASE op = "clearDivisionData" ->
                  [teams |-> EmptyTable, players |-> EmptyTable,
                   games |-> {}, playerGames |-> {}]
             [] op = "upsertTeam" ->
                  [d EXCEPT !.teams = UpsertTeams(@, m.teamSeasonStats)]
             [] op = "insertGame" ->
                  [d EXCEPT !.games = @ \cup GameIdsOf(m.newGamesForDb)]
             [] op = "upsertPlayer" ->
                  [d EXCEPT !.players =
                     UpsertAll(@, PlayersOut(sc, m.playerSeasonStats, m.keptRows))]
             [] op = "insertPlayerGamesBatch" ->
                  [d EXCEPT !.playerGames = @ \cup
                     SeqToSet(playerGameRows(sc, m.teamSeasonStats, m.newGamesForDb))]

\* The database block at the end of the daily updater (errors propagate) and of
\* the rebuilds (try/catch: "Continuing with JSON files only...").  The block
\* stops at the first operation the database rejects: done operations stay.
WriteDatabaseLate ==
  /\ pc = "db" /\ script \notin {"build_ratings", "build_mens_d2_ratings"}
  /\ IF ~dbEnabled
     THEN GoOn(mem) /\ UNCHANGED database
     ELSE \E done \in 0..Len(DbOps(script)) :
       LET d == DbAfter(script, mem,
                        [teams |-> dbTeams, players |-> dbPlayers,
                         games |-> dbGames, playerGames |-> dbPlayerGames], done)
       IN  /\ dbTeams' = d.teams /\ dbPlayers' = d.players
           /\ dbGames' = d.games /\ dbPlayerGames' = d.playerGames
           /\ IF done = Len(DbOps(script)) THEN GoOn(mem)
              ELSE IF script \in RebuildScripts
              THEN GoOn([mem EXCEPT !.swallowed = TRUE])
              ELSE Fail(mem, "io")
  /\ UNCHANGED <<environment, today, files, script, runs, hist>>

\* ---- the JSON files
\* fs.mkdir + fs.writeFile of the ratings file: rows: d1Rows / ratingsRows
WriteRatings ==
  /\ pc = "ratings"
  /\ \E ok \in BOOLEAN :
       IF ok THEN fRatings' = mem.keptRows /\ GoOn(mem)
       ELSE fRatings' = fRatings /\ Fail(mem, "io")
  /\ UNCHANGED <<environment, today, fTeams, fPlayers, fCache, fGames, database,
                 script, runs, hist>>

\* the teams that go to the team_stats file
TeamsOut(sc, teamStats, kept) ==
  CASE sc = "build_ratings" ->
         SelectSeq(teamStats, LAMBDA t : \E i \in 1..Len(kept) : kept[i].id = t.id)
    [] sc = "build_complete_stats" ->
         SelectSeq(teamStats, LAMBDA t : t.conference # NULL)
    [] OTHER -> teamStats

WriteTeamStats ==
  /\ pc = "teams"
  /\ \E ok \in BOOLEAN :
       IF ok THEN /\ fTeams' = TeamsOut(script, mem.teamSeasonStats, mem.keptRows)
                  /\ GoOn(mem)
       ELSE fTeams' = fTeams /\ Fail(mem, "io")
  /\ UNCHANGED <<environment, today, fRatings, fPlayers, fCache, fGames, database,
                 script, runs, hist>>

\* games.json: games: gamesLog (the rebuilds)
WriteGames ==
  /\ pc = "games"
  /\ \E ok \in BOOLEAN :
       IF ok THEN /\ fGames' = [i \in 1..Len(mem.newGamesForDb) |->
                                  mem.newGamesForDb[i].gameId]
                  /\ GoOn(mem)
       ELSE fGames' = fGames /\ Fail(mem, "io")
  /\ UNCHANGED <<environment, today, fRatings, fTeams, fPlayers, fCache, database,
                 script, runs, hist>>

WritePlayerStats ==
  /\ pc = "players"
  /\ \E ok \in BOOLEAN :
       IF ok THEN /\ fPlayers' = PlayersOut(script, mem.playerSeasonStats, mem.keptRows)
                  /\ GoOn(mem)
       ELSE fPlayers' = fPlayers /\ Fail(mem, "io")
  /\ UNCHANGED <<environment, today, fRatings, fTeams, fCache, fGames, database,
                 script, runs, hist>>

\* the cache file after the script's cache write
CacheOut_keepsOld(sc, cacheFile, m) == cacheFile
CacheOut(sc, cacheFile, m) ==
  CASE sc \in {"build_ratings", "build_mens_d2_ratings"} ->
         saveKnownGameIds(cacheFile, m.processedGameIds)
    [] sc = "build_womens_d1_ratings" ->
         appendGameIds(cacheFile, m.processedGameIds)
    [] OTHER -> m.processedGameIds     \* successfullyParsedIds, overwriting

WriteCache ==
  /\ pc = "cache"
  /\ \E ok \in BOOLEAN :
       IF ok THEN fCache' = CacheOut(script, fCache, mem) /\ GoOn(mem)
       ELSE fCache' = fCache /\ Fail(mem, "io")
  /\ UNCHANGED <<environment, today, fRatings, fTeams, fPlayers, fGames, database,
                 script, runs, hist>>

\* ---- the processes and their world
\* the process is gone; what it leaves behind is the stores
Exit ==
  /\ pc = "exited"
  /\ pc' = "idle" /\ script' = NULL /\ mem' = EmptyMem /\ exitCode' = NULL
  /\ hist' = [hist EXCEPT
       !.pre = <<>>, !.repeat = FALSE,
       !.settled = IF script \in IncrementalScripts /\ mem.failure # "io"
                      /\ ~mem.swallowed
                   THEN script ELSE NULL,
       !.trouble = @ \cup (IF mem.failure = "io" \/ mem.swallowed THEN {"fault"} ELSE {})
                     \cup (IF exitCode = "1" THEN {"fail"} ELSE {})]
  /\ UNCHANGED <<environment, today, persisted, runs>>

\* the process is killed between two statements of main
Interrupt ==
  /\ Running
  /\ pc' = "idle" /\ script' = NULL /\ mem' = EmptyMem /\ exitCode' = NULL
  /\ hist' = [hist EXCEPT !.pre = <<>>, !.repeat = FALSE, !.settled = NULL,
                          !.trouble = @ \cup {IF script \in RebuildScripts
                                               THEN "killRebuild" ELSE "kill"}]
  /\ UNCHANGED <<environment, today, persisted, runs>>

\* midnight passes while no process runs
Tick ==
  /\ pc = "idle" /\ today < MaxToday
  /\ today' = today + 1
  /\ hist' = [hist EXCEPT !.settled = NULL]
  /\ UNCHANGED <<environment, persisted, script, pc, mem, exitCode, runs>>

\* main of initialize_games_cache: allGameIds.push(gid) for every id of every
\* scoreboard from SEASON_START to today
RECURSIVE collectAllGameIds(_, _)
collectAllGameIds(up, dates) ==
  IF dates = <<>> THEN <<>>
  ELSE (IF ScoreboardFails(up, Head(dates)) THEN <<>> ELSE extractGameIds(Head(dates)))
       \o collectAllGameIds(up, Tail(dates))

InitializeGamesCache ==
  /\ pc = "idle" /\ runs < MaxRuns /\ family = "w"
  /\ runs' = runs + 1
  /\ fCache' = collectAllGameIds(upstream, seasonDays(today))
  /\ hist' = [hist EXCEPT !.settled = NULL, !.trouble = @ \cup {"seed"}]
  /\ UNCHANGED <<environment, today, fRatings, fTeams, fPlayers, fGames, database,
                 script, pc, mem, exitCode>>

Next ==
  \/ \E sc \in IncrementalScripts : StartIncremental(sc)
  \/ \E sc \in RebuildScripts : StartRebuild(sc)
  \/ FetchBoxscores
  \/ MergeGame
  \/ AfterMerge
  \/ WriteDatabaseEarly
  \/ ComputeRatings
  \/ UpdateTeamRatings
  \/ WriteRatings
  \/ WriteTeamStats
  \/ WriteGames
  \/ WritePlayerStats
  \/ WriteCache
  \/ WriteDatabaseLate
  \/ Exit
  \/ Interrupt
  \/ Tick
  \/ InitializeGamesCache

Spec == Init /\ [][Next]_vars

(* ============================================================== fetchJson *)
(* One call of fetchJson, statement by statement.  The pipeline variables    *)
(* stay at their initial values; only net changes.                           *)

REQUEST_RETRIES == 3
RETRY_428_DELAY_MS == 2000

\* what one attempt can end with: a response with a status, or a rejection
\* of fetch (or of res.json()) with the word the message carries; "aborted"
\* is the rejection that controller.abort() causes
Statuses == {200, 404, 428, 429, 500, 502, 503, 504}
Rejections == {"ECONNRESET", "ENOTFOUND", "fetch failed"}
Response(status) == [kind |-> "response", status |-> status]
Rejected(msg) == [kind |-> msg, status |-> 0]
NoOutcome == [kind |-> "none", status |-> 0]

Retry(ms) == [act |-> "retry", delay |-> ms]
Throw == [act |-> "throw", delay |-> 0]
Return == [act |-> "return", delay |-> 0]

\* catch (e): which errors go round the loop again
catchClause(sc, o, attempt) ==
  CASE sc \in {"build_ratings", "build_mens_d2_ratings"} ->
         IF attempt < REQUEST_RETRIES THEN Retry(500 * (attempt + 1)) ELSE Throw
    [] sc \in RebuildScripts ->
         IF o.kind \in {"aborted", "ECONNRESET", "ENOTFOUND"} /\ attempt < REQUEST_RETRIES
           THEN Retry(500 * (attempt + 1)) ELSE Throw
    [] OTHER ->
         IF o.kind \in {"aborted", "ECONNRESET"} /\ attempt < REQUEST_RETRIES
           THEN Retry(500 * (attempt + 1)) ELSE Throw

\* if (!res.ok) { ... }: the throw in it lands in the catch clause of the
\* same try
notOk(sc, o, attempt) ==
  CASE sc \in {"build_ratings", "build_mens_d2_ratings"} ->
         IF o.status \in {428, 502} /\ attempt < REQUEST_RETRIES
           THEN Retry(2000 * (attempt + 1))
           ELSE catchClause(sc, o, attempt)
    [] sc \in RebuildScripts ->
         IF o.status \in {502, 428} /\ attempt < REQUEST_RETRIES
           THEN Retry(RETRY_428_DELAY_MS * (attempt + 1))
           ELSE IF o.status \in {429, 500, 502, 503, 504} /\ attempt < REQUEST_RETRIES
             THEN Retry(400 * (attempt + 1))
             ELSE catchClause(sc, o, attempt)
    [] OTHER ->
         IF o.status \in {429, 500, 502, 503, 504} /\ attempt < REQUEST_RETRIES
           THEN Retry(400 * (attempt + 1))
           ELSE catchClause(sc, o, attempt)

\* the body of the try for one settled attempt
tryBody(sc, o, attempt) ==
  IF o.kind = "response"
    THEN IF o.status = 200 THEN Return ELSE notOk(sc, o, attempt)
    ELSE catchClause(sc, o, attempt)

\* the BOX HTTP FAIL line and its counter (rebuild scripts only)
LogsBoxHttpFail(sc, isBoxscore, o, attempt, count) ==
  /\ sc \in RebuildScripts
  /\ o.kind = "response" /\ o.status # 200
  /\ ~(o.status \in {502, 428} /\ attempt < REQUEST_RETRIES)
  /\ isBoxscore /\ count < 10

Idle ==
  /\ dbEnabled = FALSE
  /\ upstream = [box |-> [g \in Games |-> "ok"], conf |-> TRUE, sbFail |-> {}]
  /\ today = 1
  /\ fRatings = <<>> /\ fTeams = <<>> /\ fPlayers = <<>>
  /\ fCache = <<>> /\ fGames = <<>>
  /\ dbTeams = EmptyTable /\ dbPlayers = EmptyTable
  /\ dbGames = {} /\ dbPlayerGames = {}
  /\ script = NULL /\ pc = "idle" /\ mem = EmptyMem
  /\ exitCode = NULL /\ runs = 0
  /\ hist = [pre |-> <<>>, repeat |-> FALSE, settled |-> NULL,
             merged |-> {}, trouble |-> {}]

pipeline == <<family, dbEnabled, upstream, today, fRatings, fTeams, fPlayers,
              fCache, fGames, dbTeams, dbPlayers, dbGames, dbPlayerGames,
              script, pc, mem, exitCode, runs, hist>>

FetchInit ==
  /\ Idle
  /\ family \in {"w", "d2", "wd1"}
  /\ \E sc \in ScriptsOf(family), isBoxscore \in BOOLEAN :
       net = [kind |-> "fetch", sc |-> sc, isBoxscore |-> isBoxscore,
              attempt |-> 0, phase |-> "loop",
              armed |-> {}, open |-> {}, started |-> 0,
              last |-> NoOutcome, oks |-> 0, delays |-> <<>>, timeouts |-> 0,
              boxHttpFails |-> 0]

\* for (attempt = 0; attempt <= REQUEST_RETRIES; ...): new controller,
\* setTimeout, fetch
StartAttempt ==
  /\ net.kind = "fetch" /\ net.phase = "loop"
  /\ net.attempt <= REQUEST_RETRIES
  /\ net' = [net EXCEPT !.phase = "inflight",
                        !.armed = @ \cup {net.attempt},
                        !.open = @ \cup {net.attempt},
                        !.started = @ + 1]
  /\ UNCHANGED pipeline

\* clearTimeout(t) in the finally clause
clearTimeout_noop(armed, t) == armed

clearTimeout(armed, t) == armed \ {t}

\* the attempt in flight settles with o and the try statement runs up to its
\* sleep, return or throw; a return or throw leaves through finally
Settle(o, fired) ==
  LET step == tryBody(net.sc, o, net.attempt)
      timers == IF fired THEN net.armed \ {net.attempt} ELSE net.armed
  IN net' = [net EXCEPT
       !.open = @ \ {net.attempt},
       !.last = o,
       !.oks = IF step.act = "return" THEN @ + 1 ELSE @,
       !.timeouts = IF fired THEN @ + 1 ELSE @,
       !.boxHttpFails =
          IF LogsBoxHttpFail(net.sc, net.isBoxscore, o, net.attempt, @)
            THEN @ + 1 ELSE @,
       !.delays = IF step.act = "retry" THEN Append(@, step.delay) ELSE @,
       !.phase = CASE step.act = "retry" -> "sleep"
                   [] step.act = "return" -> "returned"
                   [] OTHER -> "threw",
       !.armed = IF step.act = "retry" THEN timers
                 ELSE clearTimeout(timers, net.attempt)]

\* the server answers, or the connection fails, before the timer
Respond(o) ==
  /\ net.kind = "fetch" /\ net.phase = "inflight"
  /\ Settle(o, FALSE)
  /\ UNCHANGED pipeline

\* REQUEST_TIMEOUT_MS pass first: controller.abort() rejects the fetch
TimerFires ==
  /\ net.kind = "fetch" /\ net.phase = "inflight"
  /\ net.attempt \in net.armed
  /\ Settle(Rejected("aborted"), TRUE)
  /\ UNCHANGED pipeline

\* the timer of a settled attempt runs out during the backoff sleep: the
\* abort of a settled fetch does nothing
TimerFiresLate ==
  /\ net.kind = "fetch" /\ net.phase = "sleep"
  /\ net.attempt \in net.armed
  /\ net' = [net EXCEPT !.armed = @ \ {net.attempt}]
  /\ UNCHANGED pipeline

\* the sleep is over: continue runs the finally clause, then attempt++ and
\* the loop test; past the last attempt the function throws "Fetch failed
\* after retries"
WakeUp_sameAttempt ==
  /\ net.kind = "fetch" /\ net.phase = "sleep"
  /\ net' = [net EXCEPT !.armed = clearTimeout(@, net.attempt),
                        !.phase = "loop"]
  /\ UNCHANGED pipeline

WakeUp ==
  /\ net.kind = "fetch" /\ net.phase = "sleep"
  /\ net' = [net EXCEPT !.armed = clearTimeout(@, net.attempt),
                        !.attempt = @ + 1,
                        !.phase = IF net.attempt + 1 <= REQUEST_RETRIES
                                   THEN "loop" ELSE "threw"]
  /\ UNCHANGED pipeline

FetchNext ==
  \/ StartAttempt
  \/ \E status \in Statuses : Respond(Response(status))
  \/ \E msg \in Rejections : Respond(Rejected(msg))
  \/ TimerFires
  \/ TimerFiresLate
  \/ WakeUp

FetchSpec == FetchInit /\ [][FetchNext]_vars

\* the event loop runs every due timer and every continuation, and a fetch
\* either settles or is aborted by its timer
FetchLive == FetchSpec /\ WF_vars(FetchNext)


(* =============================================================== mapLimit *)
(* One call of mapLimit over the box-score worker function of a main, with   *)
(* fetchJson taken as one step that returns or throws.                       *)

MaxItems == 3
BOX_CONCURRENCY == 2

Min(a, b) == IF a < b THEN a ELSE b

\* Array.from({ length: Math.min(limit, items.length) }, ...)
WorkerCount_perItem(limit, n) == n

WorkerCount(limit, n) == Min(limit, n)

\* how a fetchJson call of a worker ends: with the payload, with the error of
\* a failed status, or with a network error
FetchEnds == {"ok", "http", "net"}

NewWorker ==
  [st |-> "take", idx |-> 0, res |-> [gid |-> 0, box |-> "none"], fetches |-> 0,
   rested |-> TRUE]

PoolInit ==
  /\ Idle
  /\ family \in {"w", "d2", "wd1"}
  /\ \E sc \in ScriptsOf(family), n \in 0..MaxItems :
       net = [kind |-> "pool", sc |-> sc, n |-> n, i |-> 0,
              workers |-> [w \in 1..WorkerCount(BOX_CONCURRENCY, n) |-> NewWorker],
              items |-> [k \in 0..(n - 1) |-> k + 1],     \* the gameIds
              calls |-> [k \in 0..(n - 1) |-> 0],         \* calls of fn per index
              results |-> [k \in 0..(n - 1) |-> [gid |-> 0, box |-> "empty"]],
              failed |-> 0, boxFails |-> 0, boxHttpFails |-> 0]

\* a worker that reads i and leaves it as it is
Take_withoutIncrement(w) ==
  /\ net.kind = "pool" /\ net.workers[w].st = "take"
  /\ net' = [net EXCEPT
       !.i = @,
       !.calls = IF net.i >= net.n THEN @ ELSE [@ EXCEPT ![net.i] = @ + 1],
       !.workers[w] =
          IF net.i >= net.n
            THEN [@ EXCEPT !.st = "done"]
            ELSE [@ EXCEPT !.st = "fetching", !.idx = net.i]]
  /\ UNCHANGED pipeline

\* const idx = i++; if (idx >= items.length) return; fn(items[idx], idx)
\* runs up to its await of fetchJson
Take(w) ==
  /\ net.kind = "pool" /\ net.workers[w].st = "take"
  /\ net' = [net EXCEPT
       !.i = @ + 1,
       !.calls = IF net.i >= net.n THEN @ ELSE [@ EXCEPT ![net.i] = @ + 1],
       !.workers[w] =
          IF net.i >= net.n
            THEN [@ EXCEPT !.st = "done"]
            ELSE [@ EXCEPT !.st = "fetching", !.idx = net.i]]
  /\ UNCHANGED pipeline

\* the catch clause of the worker function: does it sleep BOX_DELAY_MS
SleepsAfterFailure(sc) == sc \notin {"build_ratings", "build_mens_d2_ratings"}

\* fetchJson settles.  A payload is followed by sleep(BOX_DELAY_MS); an error
\* lands in the catch clause of the worker function
FetchSettles(w, how) ==
  /\ net.kind = "pool" /\ net.workers[w].st = "fetching"
  /\ LET me == net.workers[w]
         pause == how = "ok" \/ SleepsAfterFailure(net.sc)
         res == [gid |-> net.items[me.idx], box |-> IF how = "ok" THEN "box" ELSE "null"]
     IN net' = [net EXCEPT
          !.boxHttpFails =
             IF net.sc \in RebuildScripts /\ how = "http" /\ @ < 10
               THEN @ + 1 ELSE @,
          !.boxFails =
             IF net.sc \in RebuildScripts /\ how # "ok" /\ @ < 10
               THEN @ + 1 ELSE @,
          !.failed =
             IF net.sc \in {"build_ratings", "build_mens_d2_ratings"} /\ how # "ok"
               THEN @ + 1 ELSE @,
          !.results = IF pause THEN @ ELSE [@ EXCEPT ![me.idx] = res],
          !.workers[w] =
             [@ EXCEPT !.fetches = @ + 1,
                       !.rested = FALSE,
                       !.res = IF pause THEN res ELSE [gid |-> 0, box |-> "none"],
                       !.st = IF pause THEN "pausing" ELSE "take"]]
  /\ UNCHANGED pipeline

\* BOX_DELAY_MS are over: fn returns and mapLimit stores results[idx]
PauseEnds(w) ==
  /\ net.kind = "pool" /\ net.workers[w].st = "pausing"
  /\ net' = [net EXCEPT
       !.results[net.workers[w].idx] = net.workers[w].res,
       !.workers[w] = [@ EXCEPT !.st = "take", !.res = [gid |-> 0, box |-> "none"],
                                !.rested = TRUE]]
  /\ UNCHANGED pipeline

\* the workers that Array.from made (none for an empty list)
Workers == IF net.kind = "pool" THEN DOMAIN net.workers ELSE {}

PoolNext ==
  \/ \E w \in Workers : Take(w)
  \/ \E w \in Workers, how \in FetchEnds : FetchSettles(w, how)
  \/ \E w \in Workers : PauseEnds(w)

PoolSpec == PoolInit /\ [][PoolNext]_vars

\* the event loop runs every continuation: a fetch settles, a sleep ends
PoolLive == PoolSpec /\ WF_vars(PoolNext)


(* =========================================================== buildPlayerId *)
(* The playerId of one player line, as each script derives it.  Strings are  *)
(* sequences of characters.                                                   *)

MaxName == 2

\* names over an upper-case letter, a lower-case letter and a blank
Names == UNION {[1..n -> {"a", "A", " "}] : n \in 0..MaxName}

\* String.prototype.toLowerCase, character by character
toLowerCase(s) == [i \in 1..Len(s) |-> IF s[i] = "A" THEN "a" ELSE s[i]]

\* s.replace(/\s+/g, "")
stripWhitespace(s) == SelectSeq(s, LAMBDA c : c # " ")

\* the writers of one database division
DivisionOf(sc) ==
  IF sc \in {"build_mens_d2_complete", "build_mens_d2_ratings"}
    THEN "mens-d2" ELSE "womens-d1"

\* a player line of the box score: upstream identifiers (NULL when the payload
\* has none), jersey number ("" when missing), names
PlayerLines ==
  [id : {NULL, "7"}, ncaaId : {NULL, "8"}, number : {"", "3"},
   firstName : Names, lastName : {<<"b">>, <<"B">>}]

\* buildPlayerId(teamId, p) of the mens-d2 scripts and the daily updater;
\* the template string of build_ratings and build_complete_stats
playerIdOf(sc, teamId, p) ==
  IF sc \in {"build_ratings", "build_complete_stats"}
    THEN <<teamId, IF p.number = "" THEN "0" ELSE p.number,
           p.firstName, p.lastName>>
    ELSE <<teamId,
           IF p.id # NULL THEN p.id ELSE IF p.ncaaId # NULL THEN p.ncaaId ELSE "0",
           stripWhitespace(toLowerCase(p.firstName)),
           stripWhitespace(toLowerCase(p.lastName))>>

PlayerIdInit ==
  /\ Idle
  /\ family \in {"w", "d2"}
  /\ \E p \in PlayerLines, q \in PlayerLines :
       net = [kind |-> "playerId", teamId |-> "1", p |-> p, q |-> q,
              division |-> IF family = "d2" THEN "mens-d2" ELSE "womens-d1",
              phase |-> "lines", ids |-> <<>>]

\* every script of the division derives the ids of the two lines
DerivePlayerIds ==
  /\ net.kind = "playerId" /\ net.phase = "lines"
  /\ net' = [net EXCEPT
       !.phase = "derived",
       !.ids = [sc \in {s \in IncrementalScripts \cup RebuildScripts :
                          DivisionOf(s) = net.division} |->
                  [p |-> playerIdOf(sc, net.teamId, net.p),
                   q |-> playerIdOf(sc, net.teamId, net.q)]]]
  /\ UNCHANGED pipeline

PlayerIdSpec == PlayerIdInit /\ [][DerivePlayerIds]_vars

(* ====================================================== candidate selection *)
(* parseBoxscore / parseCompleteGameData choosing the team totals among the   *)
(* stats objects that the walk over one payload meets, in traversal order.    *)

MaxCands == 3

\* const score = points + fga + fta + blk * 100 + stl * 100 + ast * 10 + orb + tov
plausibility(s) ==
  s.points + s.fga + s.fta + s.blk * 100 + s.stl * 100 + s.ast * 10 + s.orb + s.tov

\* deepCollectTeamStats: an object goes to the candidates only when it has
\* points, field-goal attempts or free-throw attempts
deepCollectTeamStats(payload) ==
  SelectSeq(payload, LAMBDA x : x.stats.points # 0 \/ x.stats.fga # 0 \/ x.stats.fta # 0)

\* if (!prev || score > prev.score)
Beats_orEqual(score, prev) == ~prev.found \/ score >= prev.score

Beats(score, prev) == ~prev.found \/ score > prev.score

\* for (const c of candidates) { ... bestById.set(key, { stats, score }) }
RECURSIVE bestById(_, _)
bestById(candidates, best) ==
  IF candidates = <<>> THEN best
  ELSE LET c == Head(candidates)
           score == plausibility(c.stats)
       IN bestById(Tail(candidates),
                   IF Beats(score, best[c.teamId])
                     THEN [best EXCEPT ![c.teamId] =
                             [found |-> TRUE, stats |-> c.stats, score |-> score, at |-> c.at]]
                     ELSE best)

\* a payload: up to MaxCands stats objects of teams 1 and 2, each with its
\* place in the traversal
CandidateInit ==
  /\ Idle
  /\ family \in {"w", "d2", "wd1"}
  /\ \E n \in 0..MaxCands :
       \E objs \in [1..n -> [teamId : 1..2,
                             stats : [points : 0..1, fga : 0..1, fta : {0}, blk : {0},
                                      stl : 0..1, ast : {0}, orb : {0}, tov : 0..1]]] :
         net = [kind |-> "candidates",
                payload |-> [i \in 1..n |-> [teamId |-> objs[i].teamId,
                                             stats |-> objs[i].stats, at |-> i]],
                phase |-> "payload", best |-> <<>>]

SelectCandidates ==
  /\ net.kind = "candidates" /\ net.phase = "payload"
  /\ net' = [net EXCEPT
       !.phase = "selected",
       !.best = bestById(deepCollectTeamStats(net.payload),
                         [t \in 1..2 |-> [found |-> FALSE, stats |-> <<>>,
                                          score |-> 0, at |-> 0]])]
  /\ UNCHANGED pipeline

CandidateSpec == CandidateInit /\ [][SelectCandidates]_vars

(* ------------------------------------------------------ page calculators *)
\* JavaScript Numbers as exact fractions n/d in lowest terms with d > 0; d = 0
\* is what a division by zero leaves behind: Infinity (n = 1), -Infinity
\* (n = -1) and NaN (n = 0). The rounding of doubles and the sign of zero are
\* not modelled.
MaxStat == 1

RECURSIVE gcd(_, _)
gcd(a, b) == IF b = 0 THEN a ELSE gcd(b, a % b)

Num(n, d) ==
  IF d = 0 THEN [n |-> IF n > 0 THEN 1 ELSE IF n < 0 THEN -1 ELSE 0, d |-> 0]
  ELSE LET g == gcd(IF n < 0 THEN -n ELSE n, IF d < 0 THEN -d ELSE d)
       IN  IF d < 0 THEN [n |-> -(n \div g), d |-> -(d \div g)]
           ELSE [n |-> n \div g, d |-> d \div g]

\* a op b for the operators + - * / and Math.max, with the IEEE results for
\* Infinity and NaN operands
RECURSIVE arith(_, _, _)
arith(op, a, b) ==
  CASE op = "*" ->
         IF a.d = 0 \/ b.d = 0 THEN Num(a.n * b.n, 0)
         ELSE LET g1 == gcd(IF a.n < 0 THEN -a.n ELSE a.n, b.d)
                  g2 == gcd(IF b.n < 0 THEN -b.n ELSE b.n, a.d)
              IN  Num((a.n \div g1) * (b.n \div g2), (a.d \div g2) * (b.d \div g1))
    [] op = "/" ->
         arith("*", a, IF b.d = 0 THEN Num(0, IF b.n = 0 THEN 0 ELSE 1)
                       ELSE Num(b.d, b.n))
    [] op = "+" ->
         IF a.d = 0 /\ b.d = 0 THEN (IF a.n = b.n THEN a ELSE Num(0, 0))
         ELSE IF a.d = 0 THEN a
         ELSE IF b.d = 0 THEN b
         ELSE LET g == gcd(a.d, b.d)
              IN  Num(a.n * (b.d \div g) + b.n * (a.d \div g), (a.d \div g) * b.d)
    [] op = "-" -> arith("+", a, [n |-> -b.n, d |-> b.d])
    [] op = "max" ->
         IF (a.n = 0 /\ a.d = 0) \/ (b.n = 0 /\ b.d = 0) THEN Num(0, 0)
         ELSE IF arith("-", a, b).n > 0 THEN a ELSE b

\* guard > 0 ? (n / d) * 100 : 0
pct_unguarded(guard, n, d) == arith("*", arith("/", n, d), Num(100, 1))
pct(guard, n, d) ==
  IF guard.n > 0 THEN arith("*", arith("/", n, d), Num(100, 1)) ELSE Num(0, 1)

\* calcFourFactors(stats) of the team pages; stats.own holds the fields fga,
\* orb, ... of the row and stats.opp its fields opp_fga, opp_orb, ...
calcFourFactors(stats) ==
  LET I(x) == Num(x, 1)
      own == stats.own
      opp == stats.opp
      possession == arith("max", I(1),
                      arith("+", I(own["fga"] - own["orb"] + own["tov"]),
                                 Num(475 * own["fta"], 1000)))
      oppPoss == arith("max", I(1),
                   arith("+", I(opp["fga"] - opp["orb"] + opp["tov"]),
                              Num(475 * opp["fta"], 1000)))
      drb == own["trb"] - own["orb"]
      opp_drb == opp["trb"] - opp["orb"]
      \* the factors of one side: s shoots against o, with s's possessions
      \* and the defensive rebounds of o
      side(s, o, sPoss, oDrb) ==
        [efg |-> pct(I(s["fga"]), Num(2 * s["fgm"] + s["tpm"], 2), I(s["fga"])),
         tov |-> pct(sPoss, I(s["tov"]), sPoss),
         orb |-> pct(I(s["orb"] + oDrb), I(s["orb"]), I(s["orb"] + oDrb)),
         ftr |-> pct(I(s["fga"]), I(s["fta"]), I(s["fga"])),
         two |-> pct(I(s["fga"] - s["tpa"]), I(s["fgm"] - s["tpm"]),
                     I(s["fga"] - s["tpa"])),
         three |-> pct(I(s["tpa"]), I(s["tpm"]), I(s["tpa"])),
         ft |-> pct(I(s["fta"]), I(s["ftm"]), I(s["fta"])),
         threePaRate |-> pct(I(s["fga"]), I(s["tpa"]), I(s["fga"])),
         blk |-> pct(I(s["fga"] - s["tpa"]), I(o["blk"]), I(s["fga"] - s["tpa"])),
         stl |-> pct(sPoss, I(o["stl"]), sPoss),
         ast |-> pct(I(s["fgm"]), I(s["ast"]), I(s["fgm"]))]
  IN  [off |-> side(own, opp, possession, opp_drb),
       def |-> side(opp, own, oppPoss, drb)]

\* x.toFixed(1): the text of x rounded to tenths; "NaN" and "Infinity" for
\* the values that are not numbers
toFixed(x) ==
  IF x.d = 0
    THEN [text |-> IF x.n = 0 THEN "NaN" ELSE IF x.n > 0 THEN "Infinity" ELSE "-Infinity"]
    ELSE [text |-> "number",
          tenths |-> 10 * (x.n \div x.d) + (20 * (x.n % x.d) + x.d) \div (2 * x.d)]

\* The offensive rating of PlayerStats (womens-d1 team page) for the player
\* totals p of a player of the team: the rating and the denominator of every
\* division that is evaluated on the way, in the component scope and in
\* calcStats. The values are computed in the order of their dependencies,
\* each step adding its constants to the record of the steps before.
PlayerStats(team, p) ==
  LET I(x) == Num(x, 1)
      A(x, y) == arith("+", x, y)
      S(x, y) == arith("-", x, y)
      M(x, y) == arith("*", x, y)
      D(x, y) == arith("/", x, y)
      sq(x) == arith("*", x, x)
      One == Num(1, 1)
      t == team.own
      teamMinutes == I(team.games * 200)
      minutes == I(p.minutes)
      \* if (pg.fga > 0 && pg.fta > 0 && pg.minutes > 0)
      inside == p.fga > 0 /\ p.fta > 0 /\ p.minutes > 0
      base ==
        [d_orbPct |-> I(t["orb"] + (team.opp["trb"] - team.opp["orb"])),
         d_teamFt |-> I(t["fta"]),
         d_play |-> A(A(I(t["fga"]), M(I(t["fta"]), Num(2, 5))), I(t["tov"])),
         d_fifth |-> D(teamMinutes, I(5)),
         d_teamFgm |-> I(t["fgm"]),
         d_qast |-> S(M(M(D(I(t["fgm"]), teamMinutes), minutes), I(5)), I(p.fgm)),
         d_twoFga |-> I(2 * p.fga),
         d_others |-> I(2 * (t["fga"] - p.fga)),
         d_fta |-> I(p.fta),
         d_othersFgm |-> I(t["fgm"] - p.fgm)]
      quotients(a) ==
        a @@ [Team_ORB_pct |-> D(I(t["orb"]), a.d_orbPct),
              \* 1 - Math.pow(1 - team.ftm / team.fta, 2)
              teamMakesOne |-> S(One, sq(S(One, D(I(t["ftm"]), a.d_teamFt)))),
              minShare |-> D(minutes, a.d_fifth),
              othersShare |-> D(I((t["points"] - t["ftm"]) - (p.points - p.ftm)),
                                a.d_others),
              \* Math.pow(1 - pg.ftm / pg.fta, 2)
              missBoth |-> sq(S(One, D(I(p.ftm), a.d_fta)))]
      parts(a) ==
        a @@ [Team_Scoring_Poss |->
                A(I(t["fgm"]), M(M(a.teamMakesOne, I(t["fta"])), Num(2, 5))),
              d_teamScoring |->
                A(I(t["fgm"]), M(M(a.teamMakesOne, Num(2, 5)), I(t["fta"]))),
              qAST |->
                A(M(a.minShare,
                    M(Num(57, 50), D(S(I(t["ast"]), I(p.ast)), a.d_teamFgm))),
                  M(D(S(M(M(D(I(t["ast"]), teamMinutes), minutes), I(5)), I(p.ast)),
                      a.d_qast),
                    S(One, a.minShare))),
              AST_Part |-> M(M(Num(1, 2), a.othersShare), I(p.ast)),
              FT_Part |-> M(M(S(One, a.missBoth), Num(2, 5)), I(p.fta)),
              FGxPoss |-> M(I(p.fga - p.fgm), S(One, M(Num(107, 100), a.Team_ORB_pct))),
              FTxPoss |-> M(M(a.missBoth, Num(2, 5)), I(p.fta)),
              PProd_AST_Part |->
                M(M(M(M(I(2), D(A(I(t["fgm"] - p.fgm),
                                  M(Num(1, 2), I(t["tpm"] - p.tpm))),
                                a.d_othersFgm)),
                      Num(1, 2)),
                    a.othersShare),
                  I(p.ast))]
      play(a) ==
        a @@ [Team_Play_pct |-> D(a.Team_Scoring_Poss, a.d_play),
              \* 1 - 0.5 * ((pg.points - pg.ftm) / (2 * pg.fga)) * qAST
              unassisted |->
                S(One, M(M(Num(1, 2), D(I(p.points - p.ftm), a.d_twoFga)), a.qAST))]
      weightTerms(a) ==
        a @@ [weightNum |-> M(S(One, a.Team_ORB_pct), a.Team_Play_pct),
              weightRest |-> M(a.Team_ORB_pct, S(One, a.Team_Play_pct)),
              FG_Part |-> M(I(p.fgm), a.unassisted),
              PProd_FG_Part |->
                M(M(I(2), A(I(p.fgm), M(Num(1, 2), I(p.tpm)))), a.unassisted)]
      weightDen(a) == a @@ [d_weight |-> A(a.weightNum, a.weightRest)]
      weight(a) == a @@ [Team_ORB_Weight |-> D(a.weightNum, a.d_weight)]
      rebounds(a) ==
        a @@ [ORB_Part_sc |-> M(M(I(p.orb), a.Team_ORB_Weight), a.Team_Play_pct),
              \* 1 - (team.orb / Team_Scoring_Poss) * Team_ORB_Weight * Team_Play_pct
              notRebounded |->
                S(One, M(M(D(I(t["orb"]), a.Team_Scoring_Poss), a.Team_ORB_Weight),
                         a.Team_Play_pct)),
              PProd_ORB_Part |->
                M(M(M(I(p.orb), a.Team_ORB_Weight), a.Team_Play_pct),
                  D(I(t["points"]), a.d_teamScoring))]
      sums(a) ==
        a @@ [ScPoss |-> A(M(A(A(a.FG_Part, a.AST_Part), a.FT_Part), a.notRebounded),
                           a.ORB_Part_sc),
              PProd |-> A(M(A(A(a.PProd_FG_Part, a.PProd_AST_Part), I(p.ftm)),
                            a.notRebounded),
                          a.PProd_ORB_Part)]
      total(a) == a @@ [TotPoss |-> A(A(A(a.ScPoss, a.FGxPoss), a.FTxPoss), I(p.tov))]
      result(a) ==
        [ortg |-> IF inside /\ a.TotPoss.n > 0
                    THEN D(M(I(100), a.PProd), a.TotPoss) ELSE I(0),
         denominators |->
           {a.d_orbPct, a.d_teamFt, a.d_play, a.d_weight}
           \cup (IF inside
                   THEN {I(5), a.d_fifth, a.d_teamFgm, teamMinutes, a.d_qast, a.d_twoFga,
                         a.d_others, a.d_fta, a.Team_Scoring_Poss, a.d_othersFgm,
                         a.d_teamScoring}
                   ELSE {})
           \cup (IF inside /\ a.TotPoss.n > 0 THEN {a.TotPoss} ELSE {})]
  IN  result(total(sums(rebounds(weight(weightDen(weightTerms(play(parts(
        quotients(base))))))))))

\* The same for calculatePlayerStats of PlayerStatsKenPom (mens-d2 team page)
calculatePlayerStats(team, p) ==
  LET I(x) == Num(x, 1)
      A(x, y) == arith("+", x, y)
      S(x, y) == arith("-", x, y)
      M(x, y) == arith("*", x, y)
      D(x, y) == arith("/", x, y)
      sq(x) == arith("*", x, x)
      max1(x) == arith("max", Num(1, 1), x)
      One == Num(1, 1)
      t == team.own
      teamMinutes == I(team.games * 200)
      base ==
        [d_qast |-> max1(I(t["fgm"] - p.fgm)),
         d_twoFga |-> max1(I(2 * p.fga)),
         d_teamTwoFga |-> max1(I(2 * t["fga"])),
         d_playerPoss |-> max1(A(A(I(p.fga), M(Num(44, 100), I(p.fta))), I(p.tov))),
         d_fgm |-> max1(I(p.fgm)),
         d_teamTwoFgm |-> max1(I(2 * t["fgm"])),
         d_boards |-> max1(I(t["orb"] + (team.opp["trb"] - team.opp["orb"]))),
         teamFTPct |-> IF t["fta"] > 0 THEN D(I(t["ftm"]), I(t["fta"])) ELSE I(0),
         \* pg.fta > 0 ? pg.ftm / pg.fta : 0
         ftPct |-> IF p.fta > 0 THEN D(I(p.ftm), I(p.fta)) ELSE I(0)]
      quotients(a) ==
        a @@ [qAST |-> IF p.minutes > 0
                         THEN M(D(M(D(I(p.ast), I(p.minutes)), D(teamMinutes, I(5))),
                                  a.d_qast),
                                I(100))
                         ELSE I(0),
              ftPart |-> M(M(S(One, sq(S(One, a.ftPct))), Num(2, 5)), I(p.fta)),
              ftxPoss |-> M(M(sq(S(One, a.ftPct)), Num(2, 5)), I(p.fta)),
              teamScoringPoss |->
                A(M(I(t["fgm"]),
                    S(One, M(M(Num(1, 2), D(I(t["points"] - t["ftm"]), a.d_teamTwoFga)),
                             I(0)))),
                  M(M(S(One, sq(S(One, a.teamFTPct))), Num(2, 5)), I(t["fta"]))),
              ppAST |-> IF p.ast > 0
                          THEN M(M(D(I(2 * t["fgm"] + t["tpm"]), a.d_teamTwoFgm), I(p.ast)),
                                 Num(1, 2))
                          ELSE I(0),
              fgxPoss |-> M(I(p.fga - p.fgm),
                            S(One, M(Num(107, 100), D(I(t["orb"]), a.d_boards))))]
      fieldGoals(a) ==
        a @@ [fgPart |-> IF p.fgm > 0
                           THEN M(I(p.fgm),
                                  S(One, M(M(Num(1, 2), D(I(p.points - p.ftm), a.d_twoFga)),
                                           a.qAST)))
                           ELSE I(0),
              d_teamScoring |-> max1(a.teamScoringPoss)]
      weight(a) ==
        a @@ [orbWeight |->
                M(S(One, D(M(Num(1, 2), A(a.fgPart, a.ftPart)), a.d_playerPoss)),
                  Num(1, 2)),
              ppFG |-> IF p.fgm > 0
                         THEN M(A(I(2), D(I(p.tpm), a.d_fgm)), a.fgPart) ELSE I(0)]
      rebounds(a) ==
        a @@ [orbPart |-> M(I(p.orb), a.orbWeight),
              ppORB |-> M(M(I(p.orb), a.orbWeight), D(I(t["points"]), a.d_teamScoring))]
      sums(a) ==
        a @@ [scoringPoss |-> A(A(a.fgPart, a.ftPart), a.orbPart),
              pointsProduced |-> A(A(A(a.ppFG, a.ppAST), I(p.ftm)), a.ppORB)]
      total(a) ==
        a @@ [indivPoss |-> A(A(A(a.fgxPoss, a.ftxPoss), I(p.tov)), a.scoringPoss)]
      result(a) ==
        [ortg |-> IF a.indivPoss.n > 0
                    THEN M(D(a.pointsProduced, a.indivPoss), I(100)) ELSE I(0),
         denominators |->
           {a.d_teamTwoFga, a.d_playerPoss, a.d_teamScoring, a.d_boards}
           \cup (IF t["fta"] > 0 THEN {I(t["fta"])} ELSE {})
           \cup (IF p.minutes > 0 THEN {I(p.minutes), I(5), a.d_qast} ELSE {})
           \cup (IF p.fgm > 0 THEN {a.d_twoFga, a.d_fgm} ELSE {})
           \cup (IF p.fta > 0 THEN {I(p.fta)} ELSE {})
           \cup (IF p.ast > 0 THEN {a.d_teamTwoFgm} ELSE {})
           \cup (IF a.indivPoss.n > 0 THEN {a.indivPoss} ELSE {})]
  IN  result(total(sums(rebounds(weight(fieldGoals(quotients(base)))))))

\* One game between team 1 (home) and team 2 (away) and nothing else: the
\* rebuild script of the family merges it into empty totals and rates the
\* two rows, then the team page computes the four factors of each row and the
\* table line of one player of team 1. The box-score lines are every small
\* line, inconsistent ones included, the game of the worked example and a
\* short game with plausible lines; the player has none, half or all of the
\* team's shooting, none or all of its offensive rebounds, assists and
\* turnovers, and has played 40 minutes or none.
CalcInit ==
  /\ Idle
  /\ family \in {"w", "d2"}
  /\ LET Keys == {"fga", "fgm", "tpa", "fta", "orb", "trb", "tov"}
         line(q) == [f \in StatFields |->
                       CASE f \in Keys -> q[f]
                         [] f = "tpm" -> q["tpa"]
                         [] f = "ftm" -> q["fta"]
                         [] f = "points" -> 2 * q["fgm"] + q["tpa"] + q["fta"]
                         [] f = "drb" -> Max(0, q["trb"] - q["orb"])
                         [] f \in {"ast", "stl", "blk"} -> 1
                         [] OTHER -> 0]
         shooting(points, fgm, fga, tpm, tpa, ftm, fta, orb, tov) ==
           [f \in StatFields |->
              CASE f = "points" -> points [] f = "fgm" -> fgm [] f = "fga" -> fga
                [] f = "tpm" -> tpm [] f = "tpa" -> tpa [] f = "ftm" -> ftm
                [] f = "fta" -> fta [] f = "orb" -> orb [] f = "tov" -> tov
                [] OTHER -> 0]
         Small == {<<line(h), line(a)>> :
                     h \in [Keys -> 0..MaxStat],
                     a \in {q \in [Keys -> 0..MaxStat] :
                              q["fgm"] = 0 /\ q["tpa"] = 0 /\ q["fta"] = 0 /\ q["tov"] = 0}}
         Example == <<shooting(70, 25, 60, 5, 15, 15, 20, 10, 12),
                      shooting(65, 24, 58, 6, 18, 11, 15, 8, 14)>>
         \* a short game with rebounds and assists on both sides
         Short == <<[shooting(12, 4, 8, 2, 4, 2, 4, 2, 2)
                       EXCEPT !["trb"] = 6, !["drb"] = 4, !["ast"] = 2],
                    [shooting(9, 4, 8, 0, 2, 1, 2, 2, 3)
                       EXCEPT !["trb"] = 6, !["drb"] = 4, !["ast"] = 2]>>
         conf == IF family = "d2" THEN "gliac" ELSE "acc"
         part(x, share) == CASE share = "none" -> 0
                             [] share = "half" -> x \div 2
                             [] share = "all" -> x
         \* the player's share of the shooting, of the rest, and the minutes
         Players == {<<"none", "none", 0>>, <<"all", "all", 0>>, <<"none", "all", 40>>,
                     <<"half", "all", 40>>, <<"all", "none", 40>>, <<"all", "all", 40>>}
         playerOf(own, who) ==
           [minutes |-> who[3],
            points |-> part(own["points"], who[1]),
            fgm |-> part(own["fgm"], who[1]), fga |-> part(own["fga"], who[1]),
            tpm |-> part(own["tpm"], who[1]),
            ftm |-> part(own["ftm"], who[1]), fta |-> part(own["fta"], who[1]),
            orb |-> part(own["orb"], who[2]), ast |-> part(own["ast"], who[2]),
            tov |-> part(own["tov"], who[2])]
     IN  \E lines \in Small \cup {Example, Short}, who \in Players :
           net = [kind |-> "calc", phase |-> "game",
                  game |-> [gameId |-> 1,
                            home |-> [teamId |-> 1, conference |-> conf, stats |-> lines[1]],
                            away |-> [teamId |-> 2, conference |-> conf, stats |-> lines[2]]],
                  player |-> playerOf(lines[1], who),
                  teamStats |-> <<>>, ratingsRows |-> <<>>, ff |-> <<>>, table |-> <<>>]

\* for (const game of allGames) { ... } and the rating loop, on the one game
MergeSingleGame ==
  /\ net.kind = "calc" /\ net.phase = "game"
  /\ LET sc == CHOOSE s \in ScriptsOf(family) : s \in RebuildScripts
         teamStats == MergeTeams(sc, <<>>, net.game)
     IN  net' = [net EXCEPT !.phase = "merged",
                            !.teamStats = teamStats,
                            !.ratingsRows = [i \in 1..Len(teamStats) |->
                                               RatingOf(teamStats[i])]]
  /\ UNCHANGED pipeline

\* the team page of each of the two teams, and on the page of team 1 the
\* ORtg cell of the player: {stats.ortg > 0 ? stats.ortg.toFixed(1) : "--"} on
\* the womens-d1 page, {stats.ortg.toFixed(1)} on the mens-d2 page
RenderTeamPage ==
  /\ net.kind = "calc" /\ net.phase = "merged"
  /\ LET stats == IF family = "d2"
                    THEN calculatePlayerStats(Get(net.teamStats, 1), net.player)
                    ELSE PlayerStats(Get(net.teamStats, 1), net.player)
     IN  net' = [net EXCEPT
           !.phase = "rendered",
           !.ff = [i \in 1..Len(net.teamStats) |-> calcFourFactors(net.teamStats[i])],
           !.table = [ortg |-> stats.ortg,
                      denominators |-> stats.denominators,
                      cell |-> IF family = "d2" \/ stats.ortg.n > 0
                                 THEN toFixed(stats.ortg) ELSE [text |-> "--"]]]
  /\ UNCHANGED pipeline

CalcSpec == CalcInit /\ [][MergeSingleGame \/ RenderTeamPage]_vars

(* ========================================================= stat extraction *)
(* extractCompleteStats on one raw stats object of a payload.  Strings are   *)
(* sequences of characters; a raw value is a JSON value.                      *)

MaxRaw == 2

\* String(x ?? ""): the text parseInt and parseFloat get
String(x) ==
  LET digit(i) == <<"0", "1", "2", "3", "4", "5", "6", "7", "8", "9">>[i + 1]
      RECURSIVE decimal(_)
      decimal(n) == IF n < 10 THEN <<digit(n)>>
                    ELSE decimal(n \div 10) \o <<digit(n % 10)>>
      abs == IF x.tenths < 0 THEN -x.tenths ELSE x.tenths
  IN  CASE x.kind \in {"null", "undefined"} -> <<>>
        [] x.kind = "string" -> x.text
        [] x.kind = "boolean" -> <<"t", "r", "u", "e">>
        [] x.kind = "object" ->
             <<"[", "o", "b", "j", "e", "c", "t", " ", "O", "b", "j", "e", "c", "t", "]">>
        [] x.kind = "number" ->
             (IF x.tenths < 0 THEN <<"-">> ELSE <<>>) \o decimal(abs \div 10)
               \o (IF abs % 10 = 0 THEN <<>> ELSE <<".", digit(abs % 10)>>)

\* toInt(x, d = 0): parseInt(String(x ?? ""), 10), d when that is NaN.
\* parseInt skips leading white space, takes a sign, then the longest run of
\* digits; no digit gives NaN.
toInt(x) ==
  LET isDigit(c) == c \in {"0", "1", "2", "3", "4", "5", "6", "7", "8", "9"}
      valueOf(c) == CHOOSE i \in 0..9 : String([kind |-> "number", tenths |-> 10 * i]) = <<c>>
      RECURSIVE trim(_)
      trim(s) == IF s # <<>> /\ Head(s) = " " THEN trim(Tail(s)) ELSE s
      RECURSIVE run(_, _)
      run(s, acc) == IF s # <<>> /\ isDigit(Head(s))
                     THEN run(Tail(s), [n |-> 10 * acc.n + valueOf(Head(s)), len |-> acc.len + 1])
                     ELSE acc
      t == trim(String(x))
      signed == t # <<>> /\ Head(t) \in {"-", "+"}
      r == run(IF signed THEN Tail(t) ELSE t, [n |-> 0, len |-> 0])
      isFinite == r.len > 0
      n == IF signed /\ Head(t) = "-" THEN -r.n ELSE r.n
  IN  IF isFinite THEN n ELSE 0

\* toFloat(x, d = 0): parseFloat(String(x ?? "")), d when that is NaN.
\* parseFloat takes the longest prefix sign digits [. digits]; the drawn
\* texts hold no exponent.  The result is a fraction [n, d].
toFloat(x) ==
  LET isDigit(c) == c \in {"0", "1", "2", "3", "4", "5", "6", "7", "8", "9"}
      valueOf(c) == CHOOSE i \in 0..9 : String([kind |-> "number", tenths |-> 10 * i]) = <<c>>
      RECURSIVE trim(_)
      trim(s) == IF s # <<>> /\ Head(s) = " " THEN trim(Tail(s)) ELSE s
      RECURSIVE run(_, _)
      run(s, acc) == IF s # <<>> /\ isDigit(Head(s))
                     THEN run(Tail(s), [n |-> 10 * acc.n + valueOf(Head(s)),
                                        scale |-> 10 * acc.scale, len |-> acc.len + 1,
                                        rest |-> Tail(s)])
                     ELSE acc
      t == trim(String(x))
      signed == t # <<>> /\ Head(t) \in {"-", "+"}
      body == IF signed THEN Tail(t) ELSE t
      whole == run(body, [n |-> 0, scale |-> 1, len |-> 0, rest |-> body])
      frac == IF whole.rest # <<>> /\ Head(whole.rest) = "."
              THEN run(Tail(whole.rest), [n |-> 0, scale |-> 1, len |-> 0, rest |-> <<>>])
              ELSE [n |-> 0, scale |-> 1, len |-> 0, rest |-> <<>>]
      isFinite == whole.len + frac.len > 0
      magnitude == whole.n * frac.scale + frac.n
  IN  IF isFinite
      THEN Num(IF signed /\ Head(t) = "-" THEN -magnitude ELSE magnitude, frac.scale)
      ELSE Num(0, 1)

\* extractCompleteStats(raw): every counting field is toInt(pick(raw, keys), 0)
\* and minutes is toFloat(pick(raw, keys), 0); pick returns the first
\* obj[k] != null of its key list, else null
extractCompleteStats(raw) ==
  LET RECURSIVE pick(_, _)
      pick(obj, keys) ==
        IF keys = <<>> THEN [kind |-> "null"]
        ELSE IF obj[Head(keys)].kind \notin {"null", "undefined"} THEN obj[Head(keys)]
        ELSE pick(obj, Tail(keys))
  IN  [points |-> toInt(pick(raw, <<"points", "pts", "score">>)),
       fgm |-> toInt(pick(raw, <<"fieldGoalsMade", "fgm", "fgMade">>)),
       fga |-> toInt(pick(raw, <<"fieldGoalsAttempted", "fga", "fgAttempts">>)),
       tpm |-> toInt(pick(raw, <<"threePointsMade", "3pm", "threePointersMade", "threePtMade">>)),
       tpa |-> toInt(pick(raw, <<"threePointsAttempted", "3pa", "threePointersAttempted",
                                 "threePtAttempts">>)),
       ftm |-> toInt(pick(raw, <<"freeThrowsMade", "ftm", "ftMade">>)),
       fta |-> toInt(pick(raw, <<"freeThrowsAttempted", "fta", "ftAttempts">>)),
       orb |-> toInt(pick(raw, <<"offensiveRebounds", "oreb", "offReb", "orb">>)),
       drb |-> toInt(pick(raw, <<"defensiveRebounds", "dreb", "defReb", "drb">>)),
       trb |-> toInt(pick(raw, <<"totalRebounds", "treb", "rebounds", "reb", "trb">>)),
       ast |-> toInt(pick(raw, <<"assists", "ast">>)),
       stl |-> toInt(pick(raw, <<"steals", "stl">>)),
       blk |-> toInt(pick(raw, <<"blockedShots", "blocks", "blk">>)),
       tov |-> toInt(pick(raw, <<"turnovers", "tov", "to">>)),
       pf |-> toInt(pick(raw, <<"fouls", "pf", "personalFouls">>)),
       minutes |-> toFloat(pick(raw, <<"minutesPlayed", "minutes", "mins", "min">>))]

\* one raw stats object: "pts" and "score" hold any JSON value (texts over a
\* sign, a digit, a blank, a letter and a point), "fga" and "min" a few, and
\* every other key is absent
ExtractInit ==
  /\ Idle
  /\ family \in {"w", "d2"}
  /\ LET Keys == {"points", "pts", "score", "fieldGoalsMade", "fgm", "fgMade",
                  "fieldGoalsAttempted", "fga", "fgAttempts", "threePointsMade", "3pm",
                  "threePointersMade", "threePtMade", "threePointsAttempted", "3pa",
                  "threePointersAttempted", "threePtAttempts", "freeThrowsMade", "ftm",
                  "ftMade", "freeThrowsAttempted", "fta", "ftAttempts",
                  "offensiveRebounds", "oreb", "offReb", "orb", "defensiveRebounds",
                  "dreb", "defReb", "drb", "totalRebounds", "treb", "rebounds", "reb",
                  "trb", "assists", "ast", "steals", "stl", "blockedShots", "blocks",
                  "blk", "turnovers", "tov", "to", "fouls", "pf", "personalFouls",
                  "minutesPlayed", "minutes", "mins", "min"}
         Texts == UNION {[1..n -> {"-", "7", " ", "x", "."}] : n \in 0..MaxRaw}
         number(t) == [kind |-> "number", tenths |-> t]
         Values == {[kind |-> k] : k \in {"undefined", "null", "object", "boolean"}}
                     \cup {number(t) : t \in {-30, -5, 0, 25, 120}}
                     \cup {[kind |-> "string", text |-> s] : s \in Texts}
         Few == {[kind |-> "undefined"], number(-10), number(70),
                 [kind |-> "string", text |-> <<"7", ".", "7">>]}
     IN  \E pts \in Values, score \in Values, fga \in Few, min \in Few :
           net = [kind |-> "extract", phase |-> "raw",
                  raw |-> [k \in Keys |->
                             CASE k = "pts" -> pts [] k = "score" -> score
                               [] k = "fga" -> fga [] k = "min" -> min
                               [] OTHER -> [kind |-> "undefined"]],
                  stats |-> <<>>]

\* const stats = extractCompleteStats(x)
ExtractStats ==
  /\ net.kind = "extract" /\ net.phase = "raw"
  /\ net' = [net EXCEPT !.phase = "extracted", !.stats = extractCompleteStats(net.raw)]
  /\ UNCHANGED pipeline

ExtractSpec == ExtractInit /\ [][ExtractStats]_vars

(* ============================================================ home and away *)
(* parseBoxscore / parseCompleteGameData choosing the home and the away team  *)
(* among the team-metadata entries of one payload.                            *)

MaxMeta == 3

\* isHomeFromMeta(t): true, false or null from the value v that pick finds
\* under isHome / home / is_home / homeAway / home_away
isHomeFromMeta(t) ==
  LET v == t.flag
      s == CASE v.text = "HOME" -> "home" [] v.text = "Away" -> "away"
             [] v.text = "H" -> "h" [] OTHER -> v.text       \* v.toLowerCase()
  IN  CASE v.type = "boolean" /\ v.text = "true" -> "true"
        [] v.type = "boolean" /\ v.text = "false" -> "false"
        [] v.type = "string" /\ s \in {"home", "h"} -> "true"
        [] v.type = "string" /\ s \in {"away", "a"} -> "false"
        [] OTHER -> NULL

\* the head of parseBoxscore and parseCompleteGameData: teamsArr is what
\* findTeamsMeta returns, withStats the teamIds that bestById holds
parseCompleteGameData(teamsArr, withStats) ==
  LET withHomeFlag == [i \in 1..Len(teamsArr) |->
                         [t |-> teamsArr[i], id |-> teamsArr[i].teamId,
                          home |-> isHomeFromMeta(teamsArr[i])]]
      \* withHomeFlag.find(...)?.t ?? withHomeFlag[k]?.t
      find(flag, k) ==
        IF \E i \in 1..Len(withHomeFlag) : withHomeFlag[i].home = flag
        THEN withHomeFlag[CHOOSE i \in 1..Len(withHomeFlag) :
                            /\ withHomeFlag[i].home = flag
                            /\ \A j \in 1..(i - 1) : withHomeFlag[j].home # flag].t
        ELSE withHomeFlag[k].t
      homeMeta == find("true", 1)
      awayMeta == find("false", 2)
  IN  IF Len(teamsArr) < 2 THEN NoGame
      ELSE IF withStats = {} THEN NoGame
      ELSE IF homeMeta.teamId \notin withStats \/ awayMeta.teamId \notin withStats
        THEN NoGame
      ELSE [parsed |-> TRUE,
            home |-> [teamId |-> homeMeta.teamId],
            away |-> [teamId |-> awayMeta.teamId]]

\* one payload: the metadata entries of different teams, each with any value
\* of the home/away flag, and team totals for some of the teams
MetaInit ==
  /\ Idle
  /\ family \in {"w", "d2"}
  /\ LET Flags == {[type |-> "undefined", text |-> ""]}
                    \cup [type : {"boolean"}, text : {"true", "false"}]
                    \cup [type : {"string"}, text : {"home", "Away", "H", "a", "true", "x"}]
     IN  \E n \in 1..MaxMeta : \E flags \in [1..n -> Flags], withStats \in SUBSET (1..n) :
           net = [kind |-> "meta", phase |-> "payload",
                  teamsArr |-> [i \in 1..n |-> [teamId |-> i, flag |-> flags[i]]],
                  withStats |-> withStats,
                  game |-> NoGame]

\* const gameData = parseCompleteGameData(gid, box, date)
ParseGameData ==
  /\ net.kind = "meta" /\ net.phase = "payload"
  /\ net' = [net EXCEPT !.phase = "parsed",
                        !.game = parseCompleteGameData(net.teamsArr, net.withStats)]
  /\ UNCHANGED pipeline

MetaSpec == MetaInit /\ [][ParseGameData]_vars

(* ============================================================ the cache file *)
(* loadKnownGameIds and saveKnownGameIds of build_ratings and                *)
(* build_mens_d2_ratings on a cache file of any content.  A file is missing, *)
(* not JSON ("text"), a JSON array, or a JSON object with or without a       *)
(* game_ids array; rest holds the other properties of an object.  An id is a *)
(* JSON string or a JSON number.                                             *)

MaxIds == 2

\* loadKnownGameIds: new Set(parsed.map(String)) for an array, new
\* Set(parsed.game_ids.map(String)) for an object with a game_ids array, else
\* (and when readFile or JSON.parse throws) the empty Set
LoadFromFile(file) ==
  CASE file.kind = "array" -> {String(file.items[i]) : i \in 1..Len(file.items)}
    [] file.kind = "object" /\ file.hasIds ->
         {String(file.game_ids[i]) : i \in 1..Len(file.game_ids)}
    [] OTHER -> {}

\* saveKnownGameIds(newlyParsedIds): the file it writes.  existingIds is
\* parsed.game_ids when that is an array, else []; { ...parsed, game_ids,
\* total_games } spreads an array into its indexed properties; the catch
\* clause writes the new ids alone.
SaveToFile(file, newlyParsedIds) ==
  IF file.kind \in {"missing", "text"}
  THEN [kind |-> "object", hasIds |-> TRUE, game_ids |-> newlyParsedIds, rest |-> <<>>]
  ELSE LET existingIds == IF file.kind = "object" /\ file.hasIds
                          THEN file.game_ids ELSE <<>>
       IN  [kind |-> "object", hasIds |-> TRUE,
            game_ids |-> AddAll(AddAll(<<>>, existingIds), newlyParsedIds),
            rest |-> IF file.kind = "array" THEN file.items ELSE file.rest]

CacheInit ==
  /\ Idle
  /\ family \in {"w", "d2"}
  /\ LET text(c) == [kind |-> "string", text |-> <<c>>]
         Stored == {text("1"), text("2"), [kind |-> "number", tenths |-> 10]}
         Lists(S) == UNION {[1..n -> S] : n \in 0..MaxIds}
         Files == {[kind |-> "missing"], [kind |-> "text"],
                   [kind |-> "object", hasIds |-> FALSE, game_ids |-> <<>>, rest |-> <<>>]}
                    \cup {[kind |-> "array", items |-> l] : l \in Lists(Stored)}
                    \cup {[kind |-> "object", hasIds |-> TRUE, game_ids |-> l,
                           rest |-> <<>>] : l \in Lists(Stored)}
     IN  \E file \in Files, new \in Lists({text("1"), text("2"), text("3")}) :
           net = [kind |-> "cache", phase |-> "file", file |-> file,
                  newlyParsedIds |-> new, knownGameIds |-> {}, reloaded |-> {}]

\* const knownGameIds = await loadKnownGameIds(), at the start of a run and
\* of the next run
LoadKnownGameIds ==
  /\ net.kind = "cache" /\ net.phase \in {"file", "saved"}
  /\ net' = IF net.phase = "file"
            THEN [net EXCEPT !.phase = "loaded", !.knownGameIds = LoadFromFile(net.file)]
            ELSE [net EXCEPT !.phase = "reloaded", !.reloaded = LoadFromFile(net.file)]
  /\ UNCHANGED pipeline

\* await saveKnownGameIds(processedGameIds)
SaveKnownGameIds ==
  /\ net.kind = "cache" /\ net.phase = "loaded"
  /\ net' = [net EXCEPT !.phase = "saved",
                        !.file = SaveToFile(net.file, net.newlyParsedIds)]
  /\ UNCHANGED pipeline

CacheSpec == CacheInit /\ [][LoadKnownGameIds \/ SaveKnownGameIds]_vars

(* ================================================================ properties *)
\* the stores as they were when the present process started
PreRatings == hist.pre[1]
PreTeams == hist.pre[2]
PreCache == hist.pre[4]
PreDbTeams == hist.pre[6]

\* a store rejected a write, in this process or in an earlier one
Faulted == "fault" \in hist.trouble \/ mem.failure = "io" \/ mem.swallowed

\* the games of the schedule that team t plays
PlayedBy(t) == {g \in Games : HomeOf(g) = t \/ AwayOf(g) = t}

\* C1: when an incremental script has run to its end without a store error and
\* the same script is run again at once (same day, same upstream answers), the
\* team season totals and the ratings rows, in the files and in the database,
\* are after the second run what they were after the first.
C1_SecondRunChangesNothing ==
  (pc = "exited" /\ hist.repeat) =>
    /\ fTeams = PreTeams
    /\ fRatings = PreRatings
    /\ dbTeams = PreDbTeams

\* the second run has ended and the totals it found hold merged games
C1_Witness ==
  /\ pc = "exited" /\ hist.repeat
  /\ \E i \in 1..Len(fTeams) : fTeams[i].games > 0
  /\ fRatings # <<>>

\* C2: in an incremental run no gameId of the cache file as it was loaded at
\* the start is requested from /game/{id}/boxscore or merged, on however many
\* of the scanned scoreboards it is listed.
C2_CachedNeverRefetched ==
  script \in IncrementalScripts =>
    /\ mem.requested \cap SeqToSet(PreCache) = {}
    /\ SeqToSet(mem.processedGameIds) \cap SeqToSet(PreCache) = {}

\* a run that requested box scores while a cached game was listed on both of
\* the scoreboards it scanned
C2_Witness ==
  /\ script \in IncrementalScripts /\ mem.requested # {}
  /\ \E g \in SeqToSet(PreCache) :
       \A i \in 1..LOOKBACK_DAYS :
          /\ ListedOn(g, datesToCheck(today)[i])
          /\ ~ScoreboardFails(upstream, datesToCheck(today)[i])

\* C3: as long as no store rejects a write and no rebuild is killed, and
\* whatever runs of build_ratings were killed between two statements and the
\* scripts run again, no team of the womens-d1 team file has more games than
\* the schedule gives it.
C3_NoGameCountedTwice ==
  (family = "w" /\ ~Faulted /\ "killRebuild" \notin hist.trouble) =>
    \A i \in 1..Len(fTeams) : fTeams[i].games <= Cardinality(PlayedBy(fTeams[i].id))

\* C4: an incremental run that the Guard rejects exits 1 and leaves every
\* file and every database table as it was when the run started.
C4_GuardLeavesStoresUntouched ==
  (pc = "exited" /\ script \in IncrementalScripts /\ mem.failure = "guard") =>
    (exitCode = "1" /\ persisted = hist.pre)

\* the floor configured for the division a rebuild script works on
ConfiguredFloor(sc) ==
  IF sc = "build_complete_stats" THEN MIN_TEAMS_REQUIRED ELSE MIN_TEAMS_REQUIRED_D2

\* C5: a rebuild whose ratings rows are fewer than the floor leaves every file
\* and every database table as it was when the rebuild started.
C5_RebuildBelowFloorCommitsNothing ==
  (script \in RebuildScripts /\ pc \notin {"fetch", "merge", "rate"}
     /\ Len(mem.keptRows) < ConfiguredFloor(script)) =>
    persisted = hist.pre

\* what "both writes completed" means at the end of a run
StoresComplete ==
  /\ SeqToSet(mem.processedGameIds) \subseteq SeqToSet(fCache)
  /\ mem.processedGameIds # <<>> =>
       /\ fRatings = mem.keptRows
       /\ fTeams = TeamsOut(script, mem.teamSeasonStats, mem.keptRows)
       /\ dbEnabled =>
            /\ GameIdsOf(mem.newGamesForDb) \subseteq dbGames
            /\ LET ts == teamsToUpdate(mem.teamSeasonStats, mem.newGamesForDb)
               IN  \A i \in 1..Len(ts) :
                      /\ ts[i].id \in DOMAIN dbTeams
                      /\ dbTeams[ts[i].id] = DbTeamRow(ts[i])

\* C6: a run that exits 0 has completed its writes in every enabled store and
\* has every processed gameId in the cache, and a run in which a store rejected
\* a write exits 1.
C6_SuccessMeansBothWrites ==
  (pc = "exited") =>
    /\ exitCode = "0" => StoresComplete
    /\ (mem.failure = "io" \/ mem.swallowed) => exitCode = "1"

\* C7: when every run so far has succeeded (no exit 1, no store error, no
\* kill, no cache initialisation), every team of the team file has as many
\* games as there are distinct cached gameIds in which it plays.
C7_GamesMatchCache ==
  (pc = "idle" /\ hist.trouble = {}) =>
    \A i \in 1..Len(fTeams) :
       fTeams[i].games = Cardinality(PlayedBy(fTeams[i].id) \cap SeqToSet(fCache))

\* C8: every gameId of the cache file was fetched, parsed and merged by some
\* run.
C8_CacheHoldsOnlyMergedGames == SeqToSet(fCache) \subseteq hist.merged

\* the box score the merge loop is about to handle was fetched but lacks the
\* stats candidate of a side
RejectedGameAhead ==
  /\ pc = "merge" /\ mem.idx <= Len(mem.boxscoreFetches)
  /\ mem.boxscoreFetches[mem.idx].box
  /\ \/ ~HasCandidate(upstream.box[mem.boxscoreFetches[mem.idx].gid], "home")
     \/ ~HasCandidate(upstream.box[mem.boxscoreFetches[mem.idx].gid], "away")

\* C9: when a fetched box score lacks the stats candidate of the home or of
\* the away side, parseBoxscore yields no game and the loop turn changes no
\* team total, no player total, no pending database row and not the processed
\* list.
C9_RejectedGameChangesNothing ==
  [][(RejectedGameAhead /\ pc' = "merge") =>
       /\ ~parseBoxscore(upstream, family, mem.boxscoreFetches[mem.idx].gid).parsed
       /\ mem'.idx = mem.idx + 1
       /\ mem'.teamSeasonStats = mem.teamSeasonStats
       /\ mem'.playerSeasonStats = mem.playerSeasonStats
       /\ mem'.newGamesForDb = mem.newGamesForDb
       /\ mem'.newPlayerGameRows = mem.newPlayerGameRows
       /\ mem'.processedGameIds = mem.processedGameIds]_vars

\* the loop has passed a fetched box score that lacks a side, after it merged
\* another game
C9_Witness ==
  /\ pc = "merge" /\ mem.processedGameIds # <<>>
  /\ \E i \in 1..(mem.idx - 1) :
       /\ mem.boxscoreFetches[i].box
       /\ upstream.box[mem.boxscoreFetches[i].gid] \in {"nohome", "noaway"}

\* the row of team t, or the row of a team without games
RowOrZero(teamStats, t) ==
  IF Has(teamStats, t) THEN Get(teamStats, t)
  ELSE [games |-> 0, own |-> ZeroStats, opp |-> ZeroStats]

\* the row of team t rose by one game of g, t being on side and facing opp
RowRose(old, new, t, g, side, opp) ==
  /\ Has(new, t)
  /\ Get(new, t).games = RowOrZero(old, t).games + 1
  /\ \A f \in StatFields :
       /\ Get(new, t).own[f] = RowOrZero(old, t).own[f] + BoxLine(g, side)[f]
       /\ Get(new, t).opp[f] = RowOrZero(old, t).opp[f] + BoxLine(g, opp)[f]

Fatal(o) ==
  o.kind = "response" /\ o.status \notin {200, 428, 429, 500, 502, 503, 504}

\* C11: in every fetchJson, a response whose status is not one of 428, 429,
\* 500, 502, 503, 504 (404, say) makes the request fail on that attempt: the
\* call throws and no further attempt is made for the path.
C11_FatalStatusEndsRequest ==
  (net.kind = "fetch" /\ Fatal(net.last)) => net.phase = "threw"

\* a failure named as transient: one of the six statuses, a timeout (the
\* abort) or a connection reset
Transient(o) ==
  \/ o.kind = "response" /\ o.status \in {428, 429, 500, 502, 503, 504}
  \/ o.kind \in {"aborted", "ECONNRESET"}

\* C12: in every fetchJson, each of the statuses 428, 429, 500, 502, 503 and
\* 504, and each timeout or connection reset, received on an attempt before
\* the last one leads to another attempt after a delay: the call throws on
\* such a failure only when it was the last attempt.
C12_TransientFailureIsRetried ==
  (net.kind = "fetch" /\ Transient(net.last) /\ net.phase = "threw")
    => net.attempt = REQUEST_RETRIES

FetchDone == net.kind = "fetch" /\ net.phase \in {"returned", "threw"}

\* the attempts of one call: never more than REQUEST_RETRIES + 1; a call
\* that returned did so on its first response with status 200 and a body;
\* a call that threw had no such response and its latest attempt failed
AttemptsBounded ==
  net.kind = "fetch" =>
    /\ net.started <= REQUEST_RETRIES + 1
    /\ net.started <= net.attempt + 1
    /\ net.oks <= 1
    /\ net.phase = "returned" <=> net.oks = 1
    /\ net.phase = "returned" => net.last = Response(200)
    /\ net.phase = "threw" =>
         /\ net.started >= 1
         /\ net.last # NoOutcome /\ net.last # Response(200)

\* C13: fetchJson makes at most REQUEST_RETRIES + 1 = 4 attempts for one path
\* and, every attempt completing or timing out, always terminates: it returns
\* the payload of the first successful attempt or throws once its last
\* attempt has failed.
C13_BoundedAttemptsAndTermination ==
  [](AttemptsBounded) /\ <>FetchDone

\* three failed attempts, then the fourth succeeds
C13_Witness ==
  /\ net.kind = "fetch" /\ net.phase = "returned"
  /\ net.started = REQUEST_RETRIES + 1

\* C14: within one fetchJson call the delay slept before each successive
\* retry is strictly larger than the delay slept before the previous retry,
\* whatever the sequence of retryable failures, statuses and timeouts mixed.
C14_BackoffStrictlyGrows ==
  net.kind = "fetch" =>
    \A i \in 1..(Len(net.delays) - 1) : net.delays[i] < net.delays[i + 1]

\* C15: an attempt that has not completed within REQUEST_TIMEOUT_MS is
\* aborted and uses up exactly one attempt of the budget; at no time are two
\* attempts of one request in flight, and no abort timer of an earlier attempt
\* is still armed when the next attempt starts.
C15_OneAttemptInFlight ==
  net.kind = "fetch" =>
    /\ Cardinality(net.open) <= 1
    /\ net.open = IF net.phase = "inflight" THEN {net.attempt} ELSE {}
    /\ net.phase = "loop" => net.armed = {}
    /\ net.armed \subseteq {net.attempt}
    /\ net.started = IF net.phase = "loop" THEN net.attempt ELSE net.attempt + 1
    /\ net.timeouts <= net.started
    /\ (net.last.kind = "aborted" /\ net.phase = "threw")
         => net.attempt = REQUEST_RETRIES

\* the first attempt timed out and the second is in flight
C15_Witness ==
  /\ net.kind = "fetch" /\ net.phase = "inflight"
  /\ net.attempt = 1 /\ net.timeouts = 1
  /\ net.last.kind = "aborted"

(* -------------------------------------------------- mapLimit: properties *)
\* the workers whose call of fn has started and not yet returned
InProgress == {w \in Workers : net.workers[w].st \in {"fetching", "pausing"}}
InFlight == {w \in Workers : net.workers[w].st = "fetching"}

\* C16: during mapLimit(items, limit, fn) never more than
\* min(limit, items.length) invocations of fn are in progress, so at most
\* BOX_CONCURRENCY box-score fetches are in flight at once.
C16_PoolIsBounded ==
  net.kind = "pool" =>
    /\ Cardinality(InProgress) <= Min(BOX_CONCURRENCY, net.n)
    /\ Cardinality(InFlight) <= BOX_CONCURRENCY

\* more items than workers, and every worker busy
C16_Witness ==
  /\ net.kind = "pool" /\ net.n > BOX_CONCURRENCY
  /\ Cardinality(InFlight) = BOX_CONCURRENCY
  /\ net.i < net.n

\* C17: during the concurrent box-score fetch phase neither the workers nor
\* fetchJson write any mutable state shared between the workers apart from
\* the work queue: the failure counter of main and the log-throttle counters
\* stay as they were when the pool started.
C17_WorkersShareOnlyTheQueue ==
  net.kind = "pool" =>
    /\ net.failed = 0
    /\ net.boxFails = 0
    /\ net.boxHttpFails = 0

\* C18: in each box-score worker every fetch-with-retry, whether it returned
\* a payload or failed, is followed by a pause of BOX_DELAY_MS before the
\* same worker starts its next fetch.
C18_PauseAfterEveryFetch ==
  net.kind = "pool" =>
    \A w \in Workers :
      (net.workers[w].st = "fetching" /\ net.workers[w].fetches > 0)
        => net.workers[w].rested

(* ------------------------------------------------------ scan: properties *)
\* the days whose scoreboard the running script asks for
ScannedDays ==
  IF script \in RebuildScripts THEN 1..today
  ELSE (today - LOOKBACK_DAYS)..(today - 1)

\* the games a scanned day lists whose scoreboard request did not fail, less
\* the cached ones for an incremental script
ExpectedGames ==
  {g \in Games : \E d \in ScannedDays :
                    ~ScoreboardFails(upstream, d) /\ ListedOn(g, d)}
    \ (IF script \in IncrementalScripts THEN mem.knownGameIds ELSE {})

\* the expected games whose box score is fetched, parsed and kept
MergeableGames ==
  {g \in ExpectedGames :
     /\ upstream.box[g] # "fail"
     /\ parseBoxscore(upstream, family, g).parsed
     /\ KeepsGame(script, parseBoxscore(upstream, family, g))}

\* C19: a scoreboard request that fails after its retries makes the run skip
\* only that day: the run goes on with the remaining days and still fetches
\* and merges the games listed on them; a day that lists no game raises no
\* error.
C19_FailedDayIsSkipped ==
  Running =>
    /\ SeqToSet(mem.newGameIds) = ExpectedGames
    /\ pc # "fetch" => mem.requested = ExpectedGames
    /\ pc \notin {"fetch", "merge"}
         => SeqToSet(mem.processedGameIds) = MergeableGames

\* a run past its merge loop that scanned a failed day and a day without
\* games, and merged a game of another day
C19_Witness ==
  /\ Running /\ pc \notin {"fetch", "merge"}
  /\ \E d \in ScannedDays : ScoreboardFails(upstream, d)
  /\ \E d \in ScannedDays : \A g \in Games : ~ListedOn(g, d)
  /\ mem.processedGameIds # <<>>

(* ------------------------------------------------ mens-d2: properties *)
\* C20: in the mens-d2 pipeline, rebuild and incremental run alike, a team
\* whose conference code is not in the known mens-d2 set never gets a row of
\* its own in the team season totals (in memory or in team_stats.json), while
\* each merged game counts in the games total of its in-division sides.
C20_OnlyDivisionTeamsGetRows ==
  family = "d2" =>
    /\ \A i \in 1..Len(mem.teamSeasonStats) :
         isD2Conference(mem.teamSeasonStats[i].conference)
    /\ \A i \in 1..Len(fTeams) : isD2Conference(fTeams[i].conference)
    /\ (Running /\ pc \notin {"fetch", "merge"}) =>
         \A g \in SeqToSet(mem.processedGameIds) :
           LET game == parseBoxscore(upstream, family, g)
           IN \A side \in {game.home, game.away} :
                isD2Conference(side.conference) =>
                  /\ Has(mem.teamSeasonStats, side.teamId)
                  /\ Get(mem.teamSeasonStats, side.teamId).games >= 1

(* ---------------------------------------------- buildPlayerId: properties *)
\* the name as the identifier is meant to see it: letter case and whitespace
\* set aside
NormalName(s) == stripWhitespace(toLowerCase(s))

SameUpstreamPlayer(p, q) ==
  /\ p.id = q.id /\ p.ncaaId = q.ncaaId
  /\ NormalName(p.firstName) = NormalName(q.firstName)
  /\ NormalName(p.lastName) = NormalName(q.lastName)

\* C21: the playerId depends only on teamId, the upstream identifier and the
\* name normalised for case and whitespace: two lines of one team with the
\* same upstream identifier whose names differ only in case or whitespace get
\* the same playerId, and all scripts that write one division derive the same
\* playerId for the same line.
C21_PlayerIdIsStable ==
  (net.kind = "playerId" /\ net.phase = "derived") =>
    /\ SameUpstreamPlayer(net.p, net.q) =>
         \A sc \in DOMAIN net.ids : net.ids[sc].p = net.ids[sc].q
    /\ \A s1, s2 \in DOMAIN net.ids : net.ids[s1].p = net.ids[s2].p

(* ---------------------------------------------------- players: properties *)
\* the season row of player pid, or a row without games
PlayerRowOrZero(playerStats, pid) ==
  IF Has(playerStats, pid) THEN Get(playerStats, pid)
  ELSE [games |-> 0, starts |-> 0, minutes |-> 0, points |-> 0]

PlayerRowsSound ==
  /\ \A i \in 1..Len(mem.playerSeasonStats) :
       mem.playerSeasonStats[i].starts <= mem.playerSeasonStats[i].games
  /\ \A i \in 1..Len(fPlayers) :
       fPlayers[i].games > 0 /\ fPlayers[i].starts <= fPlayers[i].games
  /\ \A k \in DOMAIN dbPlayers :
       dbPlayers[k].games > 0 /\ dbPlayers[k].starts <= dbPlayers[k].games

\* one turn of the merge loop, seen from the player of each side of the game
IdleLineCountsNothing ==
  (pc = "merge" /\ pc' = "merge" /\ mem'.idx = mem.idx + 1) =>
    LET g == mem.boxscoreFetches[mem.idx].gid
    IN \A side \in {"home", "away"} :
         LET pid == IF side = "home" THEN HomeOf(g) ELSE AwayOf(g)
             line == PlayerLine(g, side)
             old == PlayerRowOrZero(mem.playerSeasonStats, pid)
             new == PlayerRowOrZero(mem'.playerSeasonStats, pid)
         IN /\ (line.minutes = 0 /\ line.points = 0) =>
                 /\ new.games = old.games /\ new.starts = old.starts
                 /\ new.minutes = old.minutes /\ new.points = old.points
            /\ new.starts # old.starts =>
                 line.starter /\ new.starts = old.starts + 1

\* C22: a player line with zero minutes and zero points changes no counter of
\* the player's season row, and starts rises only by lines whose starter flag
\* is set; so starts <= games in every player row, and no player row with
\* games = 0 is written to the player file or the database.
C22_IdleLinesAndStarts ==
  [](PlayerRowsSound) /\ [][IdleLineCountsNothing]_vars

\* a rebuild merged game 2, whose away player is flagged a starter and sat
\* out: the season state holds her row with no game, the player file does not
C22_Witness ==
  /\ pc = "exited" /\ exitCode = "0"
  /\ 2 \in SeqToSet(mem.processedGameIds)
  /\ Has(mem.playerSeasonStats, AwayOf(2))
  /\ Get(mem.playerSeasonStats, AwayOf(2)).games = 0
  /\ fPlayers # <<>> /\ ~Has(fPlayers, AwayOf(2))
  /\ \E i \in 1..Len(fPlayers) : fPlayers[i].starts < fPlayers[i].games

(* ------------------------------------------ candidate selection: properties *)
\* the places in the payload of the objects of team t that have points,
\* field-goal attempts or free-throw attempts
CandidatesOf(t) ==
  {i \in 1..Len(net.payload) :
     /\ net.payload[i].teamId = t
     /\ \/ net.payload[i].stats.points > 0
        \/ net.payload[i].stats.fga > 0
        \/ net.payload[i].stats.fta > 0}

DecoysOf(t) ==
  {i \in 1..Len(net.payload) :
     /\ net.payload[i].teamId = t
     /\ plausibility(net.payload[i].stats) = 0}

\* C23: for each teamId the selection takes, among all stats candidates
\* collected for it, the one with the highest plausibility score, the first
\* met in traversal order when scores tie; and a populated totals object
\* (one with points or attempts) wins over an all-zero decoy of the same
\* teamId whichever comes first in the payload.
C23_BestCandidateWins ==
  (net.kind = "candidates" /\ net.phase = "selected") =>
    \A t \in 1..2 :
      /\ net.best[t].found <=> CandidatesOf(t) # {}
      /\ CandidatesOf(t) # {} =>
           LET w == net.best[t].at
           IN /\ w \in CandidatesOf(t)
              /\ net.best[t].stats = net.payload[w].stats
              /\ \A j \in CandidatesOf(t) :
                   /\ plausibility(net.payload[j].stats) <= plausibility(net.payload[w].stats)
                   /\ plausibility(net.payload[j].stats) = plausibility(net.payload[w].stats)
                        => w <= j
              /\ plausibility(net.best[t].stats) > 0

\* a decoy first, then two different candidates of the same team with equal
\* scores: the earlier of the two was taken
C23_Witness ==
  /\ net.kind = "candidates" /\ net.phase = "selected"
  /\ 1 \in DecoysOf(1) /\ CandidatesOf(1) = {2, 3}
  /\ net.payload[2].stats # net.payload[3].stats
  /\ plausibility(net.payload[2].stats) = plausibility(net.payload[3].stats)
  /\ net.best[1].at = 2

(* ---------------------------------------------------------- calculators *)
\* the two rows of the single game once it is merged
Merged == net.kind = "calc" /\ net.phase # "game"

\* C24: for all FGA, ORB, TOV, FTA >= 0 the possession estimate of the rating
\* loop is max(1, FGA - ORB + TOV + 0.475 * FTA): exactly 1 when all four are
\* 0, and never 0 or negative, also when ORB exceeds the other terms. (After
\* one game adjT is the offensive possession estimate itself, in thousandths.)
C24_PossessionsAtLeastOne ==
  Merged =>
    \A i \in 1..Len(net.teamStats) :
      LET own == net.teamStats[i].own
          raw == 1000 * (own["fga"] - own["orb"] + own["tov"]) + 475 * own["fta"]
          est == net.ratingsRows[i].adjT
      IN  /\ net.teamStats[i].games = 1
          /\ est = (IF raw > 1000 THEN raw ELSE 1000)
          /\ est >= 1000
          /\ (own["fga"] = 0 /\ own["orb"] = 0 /\ own["tov"] = 0 /\ own["fta"] = 0
                => est = 1000)

\* a row that scored and whose offensive rebounds exceed what the other terms
\* add up to has been rated on one possession
C24_Witness ==
  /\ Merged
  /\ \E i \in 1..Len(net.teamStats) :
       LET own == net.teamStats[i].own
       IN  /\ own["orb"] > own["fga"] + own["tov"] + own["fta"]
           /\ net.ratingsRows[i].adjT = 1000
           /\ net.ratingsRows[i].adjO > 0

\* the team pages of the two rows have been computed
Rendered == net.kind = "calc" /\ net.phase = "rendered"

\* C25: after a single game between A and B is merged into empty totals, the
\* offensive eFG% that calcFourFactors computes for A is the defensive eFG% it
\* computes for B, and B's offensive eFG% is A's defensive eFG%.
C25_OffenceMirrorsDefence ==
  Rendered =>
    /\ Len(net.teamStats) = 2
    /\ net.teamStats[1].id = 1 /\ net.teamStats[2].id = 2
    /\ net.ff[1].off.efg = net.ff[2].def.efg
    /\ net.ff[2].off.efg = net.ff[1].def.efg

\* the two teams shot differently, and neither eFG% is zero
C25_Witness ==
  /\ Rendered
  /\ net.ff[1].off.efg # net.ff[2].off.efg
  /\ net.ff[1].off.efg.n > 0 /\ net.ff[2].off.efg.n > 0
  /\ net.ff[1].off.efg.d > 0 /\ net.ff[2].off.efg.d > 0

\* the single game is the worked example: A (home) 70 points on 25/60 FG, 5/15
\* 3P, 15/20 FT, 10 ORB, 12 TOV; B (away) 65 on 24/58, 6/18, 11/15, 8 ORB, 14 TOV
IsExampleGame ==
  /\ net.kind = "calc"
  /\ LET a == net.game.home.stats
         b == net.game.away.stats
     IN  /\ <<a["points"], a["fgm"], a["fga"], a["tpm"], a["tpa"], a["ftm"], a["fta"],
              a["orb"], a["tov"]>> = <<70, 25, 60, 5, 15, 15, 20, 10, 12>>
         /\ <<b["points"], b["fgm"], b["fga"], b["tpm"], b["tpa"], b["ftm"], b["fta"],
              b["orb"], b["tov"]>> = <<65, 24, 58, 6, 18, 11, 15, 8, 14>>

\* C26: for the worked example merged into empty totals the pipeline gives A
\* 71.5 offensive possessions, an AdjO of 70 / 71.5 * 100 = 97.902... and an
\* eFG% of 27.5 / 60 * 100 = 275/6 = 45.83... (ratings in thousandths, rounded
\* down; the eFG% as an exact fraction).
C26_WorkedExample ==
  /\ (IsExampleGame /\ Merged) =>
       /\ net.teamStats[1].id = 1
       /\ net.ratingsRows[1].adjT = 71500
       /\ net.ratingsRows[1].adjO = 97902
  /\ (IsExampleGame /\ Rendered) =>
       /\ net.ff[1].off.efg = [n |-> 275, d |-> 6]
       /\ (net.ff[1].off.efg.n * 10) \div net.ff[1].off.efg.d = 458

\* the page of team A of the worked example has been computed
C26_Witness == IsExampleGame /\ Rendered /\ net.ratingsRows[1].games = 1

\* the factors of one side, computed for s shooting against o, are numbers,
\* and each of them whose denominator is 0 is 0
GuardedFactors(f, s, o) ==
  LET Zero == [n |-> 0, d |-> 1]
  IN  /\ \A k \in DOMAIN f : f[k].d > 0
      /\ s["fga"] = 0 => f.efg = Zero /\ f.ftr = Zero /\ f.threePaRate = Zero
      /\ s["fga"] - s["tpa"] = 0 => f.two = Zero /\ f.blk = Zero
      /\ s["tpa"] = 0 => f.three = Zero
      /\ s["fta"] = 0 => f.ft = Zero
      /\ s["fgm"] = 0 => f.ast = Zero
      /\ s["orb"] + (o["trb"] - o["orb"]) = 0 => f.orb = Zero

\* C27: for every combination of non-negative team totals calcFourFactors
\* returns 0 for each factor whose denominator is 0 and never evaluates a
\* division by zero, for the offensive and the defensive factors alike.
C27_FourFactorsAreGuarded ==
  Rendered =>
    \A i \in 1..Len(net.teamStats) :
      /\ GuardedFactors(net.ff[i].off, net.teamStats[i].own, net.teamStats[i].opp)
      /\ GuardedFactors(net.ff[i].def, net.teamStats[i].opp, net.teamStats[i].own)

\* a row without field-goal attempts and without rebounds to share, whose
\* free-throw percentage is nevertheless computed
C27_Witness ==
  /\ Rendered
  /\ \E i \in 1..Len(net.teamStats) :
       LET own == net.teamStats[i].own
           opp == net.teamStats[i].opp
       IN  /\ own["fga"] = 0 /\ own["orb"] + (opp["trb"] - opp["orb"]) = 0
           /\ opp["fga"] = 0 /\ opp["fgm"] = 0
           /\ net.ff[i].off.ft = [n |-> 100, d |-> 1]
           /\ net.ff[i].off.efg = [n |-> 0, d |-> 1]
           /\ net.ff[i].def.efg = [n |-> 0, d |-> 1]

\* C28: the individual offensive-rating computation of the team pages never
\* divides by zero, for every player and team totals: no division it
\* evaluates has a denominator of 0.
C28_RatingNeverDividesByZero ==
  Rendered => [n |-> 0, d |-> 1] \notin net.table.denominators

\* C29: a player with zero field-goal attempts and zero free-throw attempts
\* gets no numeric offensive rating: the page shows the rating as unavailable,
\* whatever the player's turnovers and rebounds.
C29_NoAttemptsNoRating ==
  (Rendered /\ net.player.fga = 0 /\ net.player.fta = 0) => net.table.cell.text = "--"

(* ------------------------------------------------- exit code: properties *)
\* every scoreboard request of the window of the running script failed
AllScoreboardsFailed == \A d \in ScannedDays : ScoreboardFails(upstream, d)

\* C30: an incremental run exits with a non-zero code when the Guard rejects
\* its output or when every scoreboard request of its window failed, and with
\* code 0 only otherwise.
C30_ExitCodeSignalsFailure ==
  (script \in IncrementalScripts /\ pc = "exited") =>
    ((mem.failure = "guard" \/ AllScoreboardsFailed) => exitCode # "0")

(* ------------------------------------------------------------------ C31 *)
\* the loop over the fetched boxscores of a rebuild is over
ScrapingComplete == script \in RebuildScripts /\ pc \notin {"idle", "fetch", "merge"}

\* C31: at the end of a full-rebuild run every discovered game has been
\* counted exactly once, as parsed or as failed:
\* gamesFound = boxesParsed + boxesFailed.
C31_EveryGameCountedOnce ==
  ScrapingComplete =>
    mem.totalGamesFound = mem.totalBoxesParsed + mem.totalBoxesFailed

\* the same for the womens rebuild alone, which has no division filter
C31_WomensRebuildCountsEveryGame ==
  (ScrapingComplete /\ script = "build_complete_stats") =>
    mem.totalGamesFound = mem.totalBoxesParsed + mem.totalBoxesFailed

C31_WomensRebuildCounted ==
  /\ ScrapingComplete /\ script = "build_complete_stats"
  /\ mem.totalBoxesParsed > 0 /\ mem.totalBoxesFailed > 0

(* ------------------------------------------------------------------ C32 *)
Extracted == net.kind = "extract" /\ net.phase = "extracted"

CountingFields ==
  {"points", "fgm", "fga", "tpm", "tpa", "ftm", "fta", "orb", "drb", "trb",
   "ast", "stl", "blk", "tov", "pf"}

\* the text of the value that the points field is read from
PointsText ==
  String(IF net.raw["pts"].kind \notin {"null", "undefined"}
         THEN net.raw["pts"] ELSE net.raw["score"])

\* C32: every counting field of the line extractCompleteStats produces is a
\* non-negative integer for any raw value (numeric strings, negative numbers,
\* null, objects), 0 when the raw value cannot be parsed.
C32_CountingFieldsAreNaturals ==
  Extracted => \A f \in CountingFields : net.stats[f] \in Nat

\* what does hold: a raw value whose text holds no minus sign gives a
\* non-negative integer, and a text without any digit gives 0
C32_UnsignedFieldsAreNaturals ==
  (Extracted /\ \A i \in 1..Len(PointsText) : PointsText[i] # "-")
    => net.stats.points \in Nat

C32_NoDigitGivesZero ==
  (Extracted /\ \A i \in 1..Len(PointsText) :
                  PointsText[i] \notin {"0", "1", "2", "3", "4", "5", "6", "7", "8", "9"})
    => net.stats.points = 0

C32_ParsedNumericString ==
  /\ Extracted
  /\ net.raw["pts"] = [kind |-> "string", text |-> <<" ", "7">>]
  /\ net.stats.points = 7
  /\ net.raw["min"].kind = "string" /\ net.stats.minutes = [n |-> 77, d |-> 10]

(* ------------------------------------------------------------------ C33 *)
\* Promise.all(workers) resolves: every worker has returned
PoolDone == net.kind = "pool" /\ \A w \in Workers : net.workers[w].st = "done"

\* fn is called at most once per index, once for every index handed out, by
\* one worker at a time; a filled slot holds the result of its own item
CalledOncePerIndex ==
  net.kind = "pool" =>
    /\ \A k \in DOMAIN net.calls :
         /\ net.calls[k] = (IF k < net.i THEN 1 ELSE 0)
         /\ Cardinality({w \in Workers : net.workers[w].st \in {"fetching", "pausing"}
                                           /\ net.workers[w].idx = k}) <= net.calls[k]
         /\ net.results[k].box # "empty" => net.results[k].gid = net.items[k]
    /\ PoolDone =>
         \A k \in DOMAIN net.items :
           /\ net.calls[k] = 1
           /\ net.results[k].gid = net.items[k]
           /\ net.results[k].box \in {"box", "null"}

\* C33: mapLimit(items, limit, fn) calls fn exactly once for every index of
\* items, never for the same index in two workers, stores each result at the
\* index of its item so the returned array is in item order, and completes
\* once every call of fn has completed.
C33_MapLimitCallsEachIndexOnce ==
  [](CalledOncePerIndex) /\ <>PoolDone

\* three items on two workers, all done, the first failed and the last fetched
C33_Witness ==
  /\ PoolDone /\ net.n = MaxItems
  /\ net.results[0].box = "null" /\ net.results[MaxItems - 1].box = "box"
  /\ net.results[MaxItems - 1].gid = MaxItems

(* ------------------------------------------------------------------ C34 *)
\* the gameIds of the run's box-score requests, in request order
FetchedIds == [i \in 1..Len(mem.boxscoreFetches) |-> mem.boxscoreFetches[i].gid]

NoRepeat(s) == \A i \in 1..Len(s), j \in 1..Len(s) : s[i] = s[j] => i = j

\* C34: within one run each distinct gameId is fetched and merged at most
\* once, also when the same game is listed on the scoreboards of several days
\* of the window or on several scoreboard paths of one day.
C34_EachGameOncePerRun ==
  script # NULL => (NoRepeat(FetchedIds) /\ NoRepeat(mem.processedGameIds))

\* the same for every script but the daily updater
C34_OnceOutsideTheDailyUpdater ==
  (script # NULL /\ script # "build_womens_d1_ratings")
    => (NoRepeat(FetchedIds) /\ NoRepeat(mem.processedGameIds))

\* build_ratings has merged the game that two scoreboards of its window list
C34_RelistedGameMergedOnce ==
  /\ script = "build_ratings" /\ mem.processedGameIds # <<>>
  /\ \E i \in 1..Len(mem.processedGameIds) :
       \A d \in {today - 1, today - 2} :
         ListedOn(mem.processedGameIds[i], d) /\ ~ScoreboardFails(upstream, d)

(* ------------------------------------------------------------------ C35 *)
\* the totals the full rebuild computes from a list of parsed games
RECURSIVE RebuildTotals(_)
RebuildTotals(games) ==
  IF games = <<>> THEN <<>>
  ELSE MergeTeams("build_complete_stats",
                  RebuildTotals(SubSeq(games, 1, Len(games) - 1)), games[Len(games)])

\* a run of build_ratings that started from empty totals is past its scan
MergingIntoEmpty ==
  script = "build_ratings" /\ PreTeams = <<>> /\ pc \notin {"idle", "fetch"}

WithoutDrb(rows) ==
  [i \in 1..Len(rows) |->
     [rows[i] EXCEPT !.own = [@ EXCEPT !["drb"] = 0], !.opp = [@ EXCEPT !["drb"] = 0]]]

\* C35: the team season totals that build_ratings reaches by merging a set of
\* parsed games one after another into empty totals are equal, field for
\* field (defensive rebounds included), to the totals build_complete_stats
\* computes from the same parsed games.
C35_IncrementalEqualsRebuild ==
  MergingIntoEmpty => mem.teamSeasonStats = RebuildTotals(mem.newGamesForDb)

\* what does hold: the two agree on every field but the defensive rebounds
C35_EqualButForDrb ==
  MergingIntoEmpty =>
    WithoutDrb(mem.teamSeasonStats) = WithoutDrb(RebuildTotals(mem.newGamesForDb))

C35_TwoGamesMerged == MergingIntoEmpty /\ Len(mem.newGamesForDb) = MaxGames

(* ------------------------------------------------------------------ C36 *)
ParsedGame == net.kind = "meta" /\ net.phase = "parsed" /\ net.game.parsed

FlagOf(i) == isHomeFromMeta(net.teamsArr[i])

\* C36: every game record that parseBoxscore / parseCompleteGameData returns
\* has two different teams: its home teamId differs from its away teamId, for
\* every combination of home/away flags on the team-metadata entries (both
\* flagged, one flagged, none flagged).
C36_HomeAndAwayDiffer ==
  ParsedGame => net.game.home.teamId # net.game.away.teamId

\* what does hold: two entries, flagged as one home and one away or not
\* flagged at all, give two different teams
C36_ConsistentFlagsGiveTwoTeams ==
  (/\ ParsedGame /\ Len(net.teamsArr) = 2
   /\ \/ {FlagOf(1), FlagOf(2)} = {"true", "false"}
      \/ {FlagOf(1), FlagOf(2)} = {NULL})
    => net.game.home.teamId # net.game.away.teamId

\* the second entry is flagged home and the first away: the flags win over
\* the positions
C36_FlagsSwapTheSides ==
  /\ ParsedGame /\ Len(net.teamsArr) = 2
  /\ net.game.home.teamId = 2 /\ net.game.away.teamId = 1

(* ------------------------------------------------------------------ C37 *)
RECURSIVE TotalOf(_, _)
TotalOf(rows, field) ==
  IF rows = <<>> THEN 0 ELSE rows[1][field] + TotalOf(Tail(rows), field)

\* C37: every merged game credits exactly one win and one loss: one of its
\* two sides gets wins + 1 and the other losses + 1, so across all teams the
\* total of wins equals the total of losses after any sequence of merges.
C37_OneWinOneLossPerGame ==
  Merged =>
    /\ TotalOf(net.teamStats, "wins") = 1
    /\ TotalOf(net.teamStats, "losses") = 1

\* what does hold: a game whose two scores differ, both sides kept, credits
\* the win to the side with more points and the loss to the other
C37_DecidedGameCreditsWinner ==
  (/\ Merged /\ Len(net.teamStats) = 2
   /\ net.game.home.stats["points"] # net.game.away.stats["points"]) =>
    LET homeWon == net.game.home.stats["points"] > net.game.away.stats["points"]
        row(t) == Get(net.teamStats, t)
        winner == IF homeWon THEN net.game.home.teamId ELSE net.game.away.teamId
        loser == IF homeWon THEN net.game.away.teamId ELSE net.game.home.teamId
    IN  /\ row(winner).wins = 1 /\ row(winner).losses = 0
        /\ row(loser).wins = 0 /\ row(loser).losses = 1

C37_DecidedGameMerged ==
  /\ Merged /\ Len(net.teamStats) = 2
  /\ net.game.home.stats["points"] > net.game.away.stats["points"]

(* ------------------------------------------------------------------ C38 *)
Reloaded == net.kind = "cache" /\ net.phase = "reloaded"

NewIdTexts == {String(net.newlyParsedIds[i]) : i \in 1..Len(net.newlyParsedIds)}

\* C38: saveKnownGameIds never drops a known game: for every format of cache
\* file that loadKnownGameIds accepts (an object with a game_ids array, or a
\* bare array of ids), every gameId that loadKnownGameIds returned before
\* saveKnownGameIds(newIds) is still returned by loadKnownGameIds afterwards,
\* together with all of newIds.
C38_SaveKeepsKnownIds ==
  Reloaded => (net.knownGameIds \cup NewIdTexts) \subseteq net.reloaded

\* what does hold: the ids after the save are the new ids and, for a file
\* that was an object, the known ids; nothing else
C38_SaveKeepsIdsOfObjectFile ==
  Reloaded =>
    /\ NewIdTexts \subseteq net.reloaded
    /\ net.reloaded \subseteq (net.knownGameIds \cup NewIdTexts)
    /\ net.file.rest = <<>> => net.knownGameIds \subseteq net.reloaded

C38_ObjectFileGrew ==
  /\ Reloaded /\ net.file.rest = <<>>
  /\ Cardinality(net.knownGameIds) = 2 /\ Cardinality(net.reloaded) = 3

====
